---------------------------- MODULE Spec2Model ----------------------------
(***************************************************************************)
(* Model of the multi-provider LLM request orchestrator of                 *)
(* src/app/api/llm/route.ts: the model registry MODEL_CONFIGS, the         *)
(* process-wide health map modelHealth, the transport callOpenRouter and   *)
(* the request handler POST with its retry / fallback loop.                *)
(*                                                                         *)
(* One request is served at a time under Spec and LongSpec; the health map *)
(* and the clock persist from one request to the next, and a call of       *)
(* callOpenRouter is one step.  DetailSpec serves one request against a    *)
(* process with a history and takes callOpenRouter from await to await.    *)
(***************************************************************************)
EXTENDS Integers, Sequences, FiniteSets, TLC

VARIABLES
    modelHealth,      \* Map model -> {lastSuccess, failures, avgResponseTime}
    now,              \* Date.now(), in ms
    pc,               \* position of POST: "idle" | "call" | "sleep" | "done", and
                      \* "fetch" | "read" inside callOpenRouter
    provider,         \* body.provider of the request being served
    availableModels,  \* POST's candidate list
    mi,               \* index of modelConfig in availableModels (for .. of)
    attempt,          \* POST's zero-based loop counter of the current model
    lastError,        \* POST's lastError
    delay,            \* the setTimeout delay POST is waiting for when pc = "sleep"
    response,         \* the NextResponse POST returned
    calls,            \* history: the callOpenRouter invocations of this request
    waits,            \* history: the backoff waits of this request
    statuses,         \* history: upstream HTTP statuses received in this request
    excluded,         \* history: models that were unhealthy when the request started
    outcome,          \* history: how the latest callOpenRouter ended
    requests,         \* number of requests served so far
    ticks,            \* number of idle periods so far
    reqBody,          \* history: the body of the request being served
    basePayload,      \* POST's basePayload
    pending,          \* the response whose body callOpenRouter is reading, if any
    sent,             \* history: the bodies sent upstream in this request, in order
    updates,          \* history: the updateModelHealth invocations of this request
    inflight,         \* number of callOpenRouter invocations that have not ended
    wakeAt,           \* history: when the latest backoff wait of this request ends
    startedAt,        \* startTime of the latest callOpenRouter of this request
    flights,          \* calls of concurrent requests in flight, per model
    landed,           \* history: the calls of concurrent requests that ended
    snapshot,         \* the body of the latest GET response
    cancelled,        \* the caller of the request being served has gone
    clock,            \* Date.now() of the browser, in ms
    history,          \* StudioTabsClient's history state
    errState,         \* StudioTabsClient's err state
    toasts,           \* useToast's toasts state
    toastCount,       \* toast.tsx's toastCount
    timers,           \* the armed setTimeout of each mounted ToastItem: id -> due time
    addedAt           \* history: the time at which addToast added each toast

vars == <<modelHealth, now, pc, provider, availableModels, mi, attempt, lastError,
          delay, response, calls, waits, statuses, excluded, outcome, requests,
          ticks, reqBody, basePayload, pending, sent, updates, inflight, wakeAt,
          startedAt, flights, landed, snapshot, cancelled, clock, history, errState,
          toasts, toastCount, timers, addedAt>>

\* the state of the browser: the studio page and the toasts
client == <<clock, history, errState, toasts, toastCount, timers, addedAt>>

\* the state of the server: the route handlers and the health map
server == <<modelHealth, now, pc, provider, availableModels, mi, attempt, lastError,
            delay, response, calls, waits, statuses, excluded, outcome, requests,
            ticks, reqBody, basePayload, pending, sent, updates, inflight, wakeAt,
            startedAt, flights, landed, snapshot, cancelled>>

\* what the steps of one request leave alone: the other requests, the caller and
\* the browser
aside == <<flights, landed, snapshot, cancelled, client>>

---------------------------------------------------------------------------
(* Bounds of the model *)

MaxRequests == 2
MaxLongRequests == 3
MaxHistoryRequests == 2
MaxTicks == 1
StartTime == 1000000
MaxFlights == 2
MaxLandings == 4
MaxCrowdCalls == 2
MaxSaves == 52
MaxToasts == 3
MaxSeconds == 12

---------------------------------------------------------------------------
(* Model registry: route.ts lines 7-27 *)

GROK == "x-ai/grok-4-fast:free"
DEEPSEEK == "deepseek/deepseek-chat"
LLAMA == "meta-llama/llama-3.1-8b-instruct:free"

\* Object.values(MODEL_CONFIGS): the configurations in declaration order
MODEL_CONFIGS ==
    << [model |-> GROK,     priority |-> 1, maxRetries |-> 2],
       [model |-> DEEPSEEK, priority |-> 2, maxRetries |-> 3],
       [model |-> LLAMA,    priority |-> 3, maxRetries |-> 1] >>

\* Object.keys(MODEL_CONFIGS)
MODEL_KEYS == <<"primary", "secondary", "tertiary">>

Models == { MODEL_CONFIGS[i].model : i \in DOMAIN MODEL_CONFIGS }

ConfigOf(m) == CHOOSE c \in { MODEL_CONFIGS[i] : i \in DOMAIN MODEL_CONFIGS } : c.model = m

FALLBACK_STATUS == {402, 429, 500, 502, 503, 504}

QUOTA_CODES == {"insufficient_quota", "insufficient_provider_quota",
                "payment_required", "rate_limited"}

---------------------------------------------------------------------------
(* JavaScript values that flow through the handler, as tagged records *)

JsUndefined == [tag |-> "undefined"]
JsNull == [tag |-> "null"]
JsString(s) == [tag |-> "string", str |-> s]
JsObject(o) == [tag |-> "object", obj |-> o]
JsNumber(n) == [tag |-> "number", num |-> n]
\* an array of n elements
JsArray(n) == [tag |-> "array", len |-> n]

\* ToBoolean of a value: undefined, null, "" and 0 are falsy, every object and
\* every array is truthy
Truthy(v) ==
    CASE v.tag \in {"object", "array"} -> TRUE
      [] v.tag = "string" -> v.str # ""
      [] v.tag = "number" -> v.num # 0
      [] OTHER -> FALSE

\* a || b
OrElse(a, b) == IF Truthy(a) THEN a ELSE b

\* { ...base, ...data }: the keys of data override those of base
Spread(base, data) ==
    [k \in (DOMAIN base) \cup (DOMAIN data) |->
        IF k \in DOMAIN data THEN data[k] ELSE base[k]]

\* responseTime?: number -- the value of an omitted argument
UNDEFINED == -1

---------------------------------------------------------------------------
(* Health tracker: route.ts lines 31-67 *)

EmptyMap == [m \in {} |-> 0]

\* mutant: a new record starts with the current time as its last success
DefaultHealthFresh == [lastSuccess |-> now, failures |-> 0, avgResponseTime |-> 0]

DefaultHealth == [lastSuccess |-> 0, failures |-> 0, avgResponseTime |-> 0]

\* modelHealth.get(model) || { lastSuccess: 0, failures: 0, avgResponseTime: 0 }
HealthGet(mh, model) == IF model \in DOMAIN mh THEN mh[model] ELSE DefaultHealth

Max(a, b) == IF a >= b THEN a ELSE b
Min(a, b) == IF a <= b THEN a ELSE b

\* mutant: a success resets the count
DecayFailuresReset(f) == 0

\* health.failures = Math.max(0, health.failures - 1)
DecayFailures(f) == Max(0, f - 1)

\* health.avgResponseTime = (health.avgResponseTime + responseTime) / 2
\* (the response times of the model are chosen so that the halving is exact)
Average(avg, responseTime) == (avg + responseTime) \div 2

\* mutant: every outcome stamps the record with the time of the call
UpdatedHealthStamped(health, success, responseTime, t) ==
    IF success
    THEN [lastSuccess |-> t,
          failures |-> Max(0, health.failures - 1),
          avgResponseTime |->
              IF responseTime # UNDEFINED /\ responseTime # 0
              THEN (health.avgResponseTime + responseTime) \div 2
              ELSE health.avgResponseTime]
    ELSE [health EXCEPT !.failures = health.failures + 1, !.lastSuccess = t]

\* the record updateModelHealth stores for `model`; t is Date.now()
UpdatedHealth(health, success, responseTime, t) ==
    IF success
    THEN [lastSuccess |-> t,
          failures |-> DecayFailures(health.failures),
          avgResponseTime |->
              IF responseTime # UNDEFINED /\ responseTime # 0
              THEN Average(health.avgResponseTime, responseTime)
              ELSE health.avgResponseTime]
    ELSE [health EXCEPT !.failures = health.failures + 1]

\* mutant: the map is rebuilt with the one record
updateModelHealthAlone(mh, model, success, responseTime, t) ==
    [m \in {model} |-> UpdatedHealth(HealthGet(mh, model), success, responseTime, t)]

\* updateModelHealth(model, success, responseTime): the map after the call
updateModelHealth(mh, model, success, responseTime, t) ==
    [m \in (DOMAIN mh) \cup {model} |->
        IF m = model
        THEN UpdatedHealth(HealthGet(mh, model), success, responseTime, t)
        ELSE mh[m]]

\* mutant: a failing model is left out for five minutes after its last success
IsHealthyCooldown(mh, model, t) ==
    IF model \notin DOMAIN mh
    THEN TRUE
    ELSE ~(mh[model].failures > 3 /\ (t - mh[model].lastSuccess) <= 300000)

\* mutant: three failures already count as recent failures
IsHealthyAtThree(mh, model, t) ==
    IF model \notin DOMAIN mh
    THEN TRUE
    ELSE ~(mh[model].failures >= 3 /\ (t - mh[model].lastSuccess) > 300000)

\* the filter predicate of getHealthyModels
IsHealthy(mh, model, t) ==
    IF model \notin DOMAIN mh
    THEN TRUE
    ELSE LET health == mh[model]
             recentFailures == health.failures > 3
             oldLastSuccess == (t - health.lastSuccess) > 300000
         IN  ~(recentFailures /\ oldLastSuccess)

\* mutant: the comparator with its operands swapped
ComparePriorityDescending(a, b) == b.priority - a.priority

\* the comparator (a, b) => a.priority - b.priority
ComparePriority(a, b) == a.priority - b.priority

\* Array.prototype.sort with that comparator (stable insertion of each element)
RECURSIVE InsertSorted(_, _)
InsertSorted(c, s) ==
    IF s = <<>> THEN <<c>>
    ELSE IF ComparePriority(c, Head(s)) < 0
         THEN <<c>> \o s
         ELSE <<Head(s)>> \o InsertSorted(c, Tail(s))

RECURSIVE SortByPriority(_)
SortByPriority(s) ==
    IF s = <<>> THEN <<>>
    ELSE InsertSorted(s[Len(s)], SortByPriority(SubSeq(s, 1, Len(s) - 1)))

getHealthyModels(mh, t) ==
    SortByPriority(SelectSeq(MODEL_CONFIGS, LAMBDA c : IsHealthy(mh, c.model, t)))

---------------------------------------------------------------------------
(* Inputs: what callers send and what the upstream endpoint answers *)

\* body.provider: the wildcard, the two named providers, and an unknown hint
Providers == {"auto", "grok", "deepseek", "openai"}

\* the request bodies: one that req.json() cannot parse, one with an empty
\* messages array, one with a message; none of them carries max_tokens,
\* temperature or top_p
RequestBodies ==
    { [json |-> jv[1], messages |-> jv[2], max_tokens |-> JsUndefined,
       temperature |-> JsUndefined, top_p |-> JsUndefined] :
          jv \in {<<FALSE, JsUndefined>>, <<TRUE, JsArray(0)>>,
                  <<TRUE, JsArray(1)>>} }

\* the body of the requests of the long-running specification
LongBody ==
    [json |-> TRUE, messages |-> JsArray(1), max_tokens |-> JsUndefined,
     temperature |-> JsUndefined, top_p |-> JsUndefined]

\* Date.now() - startTime of a call, in ms
ResponseTimes == {0, 16000}

\* idle time between two requests, in ms
IdleGaps == {300001}

\* res.text() of the upstream replies
RawCompletion == "{choices:[text]}"
RawClash == "{choices:[text],model_used:upstream,attempt:99}"
RawQuota == "{error:{code:rate_limited}}"
RawInvalid == "{error:{code:invalid_request}}"
RawHtml == "<html>Bad Gateway</html>"

\* JSON.parse(raw); `data` stays undefined when parsing throws (lines 92-97)
JSONparse(raw) ==
    CASE raw = RawCompletion -> JsObject([choices |-> "text"])
      [] raw = RawClash ->
            JsObject([choices |-> "text", model_used |-> "upstream", attempt |-> 99])
      [] raw = RawQuota -> JsObject([error |-> [code |-> "rate_limited"]])
      [] raw = RawInvalid -> JsObject([error |-> [code |-> "invalid_request"]])
      [] raw = "null" -> JsNull
      [] OTHER -> JsUndefined

\* the upstream answers: fetch resolves with (status, body text), or rejects
\* (network failure, or the abort of the timeout)
HttpReplies ==
    { [threw |-> FALSE, status |-> 200, raw |-> r] :
          r \in {RawCompletion, RawClash, RawQuota, RawHtml, "null"} }
    \cup { [threw |-> FALSE, status |-> 429, raw |-> RawQuota],
           [threw |-> FALSE, status |-> 502, raw |-> RawHtml],
           [threw |-> FALSE, status |-> 400, raw |-> RawQuota],
           [threw |-> FALSE, status |-> 400, raw |-> RawInvalid],
           [threw |-> FALSE, status |-> 404, raw |-> RawHtml] }

FetchRejects == [threw |-> TRUE, status |-> 0, raw |-> "fetch failed"]

\* the rejection of a fetch aborted by the timer, and of a body read that broke
TimerAborts == [threw |-> TRUE, status |-> 0, raw |-> "This operation was aborted"]
BodyFails == [threw |-> TRUE, status |-> 0, raw |-> "terminated"]

Replies == HttpReplies \cup {FetchRejects}

\* the replies of the long-running specification: a completion or a rejected fetch
LongReplies == { [threw |-> FALSE, status |-> 200, raw |-> RawCompletion], FetchRejects }

\* the time a slow body takes to arrive after the status, in ms
SlowBodyTimes == {20000}

\* the replies of the concurrent specification: a completion, a retryable failure
\* and a rejected fetch
ConcReplies ==
    { [threw |-> FALSE, status |-> 200, raw |-> RawCompletion],
      [threw |-> FALSE, status |-> 429, raw |-> RawQuota],
      FetchRejects }

\* the elapsed times tried for a reply: only an ok reply's elapsed time is read
\* (updateModelHealth ignores responseTime on a failure)
ReplyTimes(reply) ==
    IF ~reply.threw /\ reply.status = 200 THEN ResponseTimes ELSE {0}

\* the health maps the one request of the detailed specification may find: none,
\* or for each model a record left by earlier requests
Failing == [lastSuccess |-> 0, failures |-> 4, avgResponseTime |-> 0]
Lapsed ==
    [lastSuccess |-> StartTime - 300001, failures |-> 5, avgResponseTime |-> 8000]
Recovering ==
    [lastSuccess |-> StartTime - 300000, failures |-> 4, avgResponseTime |-> 8000]

DetailHealthMaps ==
    { EmptyMap,
      [m \in Models |-> Failing],
      [m \in Models |-> IF m = GROK THEN Lapsed ELSE Failing],
      [m \in Models |-> IF m = GROK THEN Lapsed ELSE Recovering] }

\* body.max_tokens: absent, a string, null, and numbers around the two limits
MaxTokensInputs ==
    {JsUndefined, JsNull, JsString("500")}
        \cup { JsNumber(n) : n \in {-5, 0, 1, 500, 2000, 2001} }

\* body.temperature and body.top_p: a number each (0 for one of them), a number
\* and nothing, and a string with a null
SamplingInputs ==
    { <<JsNumber(1), JsNumber(0)>>, <<JsNumber(0), JsUndefined>>,
      <<JsString("1"), JsNull>> }

\* the request bodies of the detailed specification: messages absent, null, a
\* string, an empty array, and an array of one message with every max_tokens, all
\* without temperature and top_p; and an array of two messages with every pair of
\* them
DetailBodies ==
    { [json |-> TRUE, messages |-> v, max_tokens |-> JsNumber(500),
       temperature |-> JsUndefined, top_p |-> JsUndefined] :
          v \in {JsUndefined, JsNull, JsString("hello"), JsArray(0)} }
    \cup { [json |-> TRUE, messages |-> JsArray(1), max_tokens |-> v,
            temperature |-> JsUndefined, top_p |-> JsUndefined] :
              v \in MaxTokensInputs }
    \cup { [json |-> TRUE, messages |-> JsArray(2), max_tokens |-> JsNumber(2001),
            temperature |-> st[1], top_p |-> st[2]] : st \in SamplingInputs }

\* the replies of the detailed specification: a completion, a retryable and a
\* fatal failure, and a failure whose body is no JSON
DetailReplies ==
    { [threw |-> FALSE, status |-> 200, raw |-> RawCompletion],
      [threw |-> FALSE, status |-> 429, raw |-> RawQuota],
      [threw |-> FALSE, status |-> 400, raw |-> RawInvalid],
      [threw |-> FALSE, status |-> 404, raw |-> RawHtml] }

\* Response.ok
ResOk(status) == status >= 200 /\ status <= 299

---------------------------------------------------------------------------
(* Transport: callOpenRouter, route.ts lines 69-107 *)

\* the value callOpenRouter returns for a reply that arrived (line 100)
CallResult(reply, responseTime) ==
    [ok |-> ResOk(reply.status), status |-> reply.status,
     data |-> JSONparse(reply.raw), raw |-> JsString(reply.raw),
     responseTime |-> responseTime]

\* mutant: a rejected fetch is not reported
HealthAfterReply(mh, model, reply, responseTime, t) ==
    IF reply.threw
    THEN mh
    ELSE updateModelHealth(mh, model, ResOk(reply.status), responseTime, t)

\* the health map after callOpenRouter(model, ..) got `reply` at time t
\* (line 99 for a reply, line 104 for a rejected fetch)
HealthAfterCall(mh, model, reply, responseTime, t) ==
    IF reply.threw
    THEN updateModelHealth(mh, model, FALSE, UNDEFINED, t)
    ELSE updateModelHealth(mh, model, ResOk(reply.status), responseTime, t)

\* mutant: a body that does not parse makes the call throw
RaisesOnBadBody(reply) == reply.threw \/ JSONparse(reply.raw) = JsUndefined

\* callOpenRouter ends in its catch block (lines 102-105): the fetch or the body
\* read rejected; the catch of line 95 keeps a failed JSON.parse from getting there
Raises(reply) == reply.threw

\* mutant: only a reply is reported to the health tracker
UpdatesAfterReply(log, model, reply) ==
    IF reply.threw THEN log ELSE Append(log, model)

\* the updateModelHealth invocations after callOpenRouter(model, ..) ended: one
\* more, at line 99 for a reply and at line 104 for a rejection
UpdatesAfterCall(log, model, reply) == Append(log, model)

\* mutant: only the required fields are sent
BodyBare(payload, model) ==
    [messages |-> payload.messages, max_tokens |-> payload.max_tokens,
     model |-> model]

\* body: JSON.stringify({ ...payload, model }) of line 84, before stringifying:
\* a fresh object with the keys of payload and the model
Body(payload, model) == Spread(payload, [model |-> model])

\* timeout: number = 30000
DefaultTimeout == 30000

\* mutant: the loop goes on without waiting
WakeTimeAtOnce(t, d) == t

\* the time at which a setTimeout(resolve, d) set at time t resolves
WakeTime(t, d) == t + d

---------------------------------------------------------------------------
(* Orchestrator: POST, route.ts lines 109-242 *)

MAX_TOKENS_DEFAULT == 1200
MAX_TOKENS_HARD_CAP == 2000

\* messages after the destructuring of lines 112-119: [] when the body has none
Messages(body) ==
    IF body.messages = JsUndefined THEN JsArray(0) ELSE body.messages

\* mutant: only the type of messages is tested
MessagesRejectedNoList(messages) == messages.tag # "array"

\* !Array.isArray(messages) || messages.length === 0
MessagesRejected(messages) ==
    messages.tag # "array" \/ messages.len = 0

\* mutant: the cap without the floor
FinalMaxTokensNoFloor(max_tokens) ==
    Min(IF max_tokens.tag = "number" THEN max_tokens.num ELSE MAX_TOKENS_DEFAULT,
        MAX_TOKENS_HARD_CAP)

\* finalMaxTokens of lines 128-131
FinalMaxTokens(max_tokens) ==
    Min(Max(1, IF max_tokens.tag = "number" THEN max_tokens.num
               ELSE MAX_TOKENS_DEFAULT),
        MAX_TOKENS_HARD_CAP)

\* { key: value } when typeof value === "number", {} otherwise
NumberOnly(key, value) ==
    IF value.tag = "number" THEN [k \in {key} |-> value] ELSE EmptyMap

\* basePayload of lines 133-139: messages and max_tokens, then temperature and
\* top_p when they are numbers (of the messages the model keeps the count only)
BasePayload(body) ==
    Spread(Spread([messages |-> Messages(body),
                   max_tokens |-> FinalMaxTokens(body.max_tokens)],
                  NumberOnly("temperature", body.temperature)),
           NumberOnly("top_p", body.top_p))

\* basePayload before POST has built it
NoPayload == [max_tokens |-> 0]

\* config.model.includes(sub) for the two substrings POST asks about
Includes(model, sub) == <<model, sub>> \in {<<GROK, "grok">>, <<DEEPSEEK, "deepseek">>}

\* the filter predicate of lines 144-148
MatchesProvider(c, prov) ==
    IF prov = "grok" THEN Includes(c.model, "grok")
    ELSE IF prov = "deepseek" THEN Includes(c.model, "deepseek")
    ELSE TRUE

\* mutant: the automatic selection takes every configured model
AvailableModelsUnfiltered(prov, mh, t) ==
    IF prov = "auto"
    THEN SortByPriority(MODEL_CONFIGS)
    ELSE SelectSeq(MODEL_CONFIGS, LAMBDA c : MatchesProvider(c, prov))

\* availableModels of lines 142-148
AvailableModels(prov, mh, t) ==
    IF prov = "auto"
    THEN getHealthyModels(mh, t)
    ELSE SelectSeq(MODEL_CONFIGS, LAMBDA c : MatchesProvider(c, prov))

\* result.data?.error?.code
ErrorCode(data) ==
    IF data.tag = "object" /\ "error" \in DOMAIN data.obj
                           /\ "code" \in DOMAIN data.obj.error
    THEN data.obj.error.code
    ELSE "undefined"

\* mutant: 400 taken for a fallback status
shouldFallbackWith400(result) ==
    result.status \in FALLBACK_STATUS \cup {400} \/ ErrorCode(result.data) \in QUOTA_CODES

\* mutant: only the status decides, the error code of the body is not read
shouldFallbackStatusOnly(result) == result.status \in FALLBACK_STATUS

\* shouldFallback of lines 175-181
shouldFallback(result) ==
    result.status \in FALLBACK_STATUS \/ ErrorCode(result.data) \in QUOTA_CODES

\* mutant: the test of line 164 with the ok test negated
IsSuccessNotOk(result) == ~result.ok /\ Truthy(result.data)

\* result.ok && result.data of line 164
IsSuccess(result) == result.ok /\ Truthy(result.data)

\* mutant: the exponent counts the attempts from 1
BackoffOneBased(k) == (2 ^ (k + 1)) * 1000

\* Math.pow(2, attempt) * 1000 of line 205
Backoff(k) == (2 ^ k) * 1000

\* mutant: a thrown error backs off exponentially like an HTTP failure
ErrorDelayExponential(k) == Backoff(k)

\* the delay of line 216 after a thrown error at attempt k
ErrorDelay(k) == 1000

\* attempt < modelConfig.maxRetries - 1 of lines 204 and 215
AttemptsRemain(modelConfig, k) == k < modelConfig.maxRetries - 1

\* mutant: the loop leaves a model that is no longer healthy
MoreAttemptsWhileHealthy(modelConfig, k) ==
    k < modelConfig.maxRetries /\ IsHealthy(modelHealth', modelConfig.model, now')

\* mutant: the loop test off by one
MoreAttemptsInclusive(modelConfig, k) == k <= modelConfig.maxRetries

\* the loop test attempt < modelConfig.maxRetries of line 160
MoreAttempts(modelConfig, k) == k < modelConfig.maxRetries

\* the status of line 153
NoCandidatesStatus == 503

NoResponse == [kind |-> "none", status |-> 0, body |-> EmptyMap]

\* lines 122-125
ValidationResponse ==
    [kind |-> "validation", status |-> 400,
     body |-> [error |-> TRUE,
               message |-> "messages[] is required and must not be empty"]]

\* lines 233-240: the answer of the outer catch
ServerErrorResponse ==
    [kind |-> "server_error", status |-> 500,
     body |-> [error |-> TRUE, message |-> "Unexpected token in JSON",
               timestamp |-> "ISO-8601"]]

\* mutant: the answer to an empty candidate list has the status of the aggregate
NoCandidatesAsAggregate ==
    [kind |-> "no_candidates", status |-> 502,
     body |-> [error |-> TRUE, message |-> "No healthy models available"]]

\* lines 151-154
NoCandidatesResponse ==
    [kind |-> "no_candidates", status |-> NoCandidatesStatus,
     body |-> [error |-> TRUE, message |-> "No healthy models available"]]

\* lines 165-171; NextResponse.json answers 200 when no status is given
SuccessResponse(modelConfig, k, result) ==
    [kind |-> "success", status |-> 200,
     body |-> Spread([model_used |-> modelConfig.model,
                      response_time |-> result.responseTime,
                      attempt |-> k + 1,
                      health_status |-> "healthy"],
                     result.data.obj)]

\* result.status || 500 of line 192
FatalStatus(status) == IF status # 0 THEN status ELSE 500

\* lines 184-193
FatalResponse(modelConfig, k, result) ==
    [kind |-> "fatal", status |-> FatalStatus(result.status),
     body |-> [error |-> TRUE,
               model_attempted |-> modelConfig.model,
               status |-> result.status,
               attempt |-> k + 1,
               details |-> OrElse(result.data, result.raw)]]

\* the status of line 229
AggregateStatus == 502

\* lines 222-230
AggregateResponse(err, mh) ==
    [kind |-> "aggregate", status |-> AggregateStatus,
     body |-> [error |-> TRUE,
               message |-> "All providers failed after retries",
               lastError |-> err,
               healthStatus |-> mh]]

\* lines 196-201
HttpError(modelConfig, k, result) ==
    [model |-> modelConfig.model, status |-> result.status,
     details |-> OrElse(result.data, result.raw), attempt |-> k + 1]

\* lines 209-213
ThrownError(modelConfig, k) ==
    [model |-> modelConfig.model, error |-> "fetch failed", attempt |-> k + 1]

---------------------------------------------------------------------------
(* The state machine *)

NoOutcome == [threw |-> FALSE, result |-> EmptyMap]

\* snapshot before any GET was answered
NoSnapshot == [healthy |-> FALSE, models |-> EmptyMap, configs |-> <<>>]

\* no request has arrived yet
NoBody ==
    [json |-> FALSE, messages |-> JsUndefined, max_tokens |-> JsUndefined,
     temperature |-> JsUndefined, top_p |-> JsUndefined]

\* the state of a fresh process, but for the health map
InitRequest ==
    /\ now = StartTime
    /\ pc = "idle"
    /\ provider = "auto"
    /\ reqBody = NoBody
    /\ basePayload = NoPayload
    /\ availableModels = <<>>
    /\ mi = 0
    /\ attempt = 0
    /\ lastError = JsNull
    /\ delay = 0
    /\ pending = {}
    /\ response = NoResponse
    /\ calls = <<>>
    /\ waits = <<>>
    /\ statuses = {}
    /\ excluded = {}
    /\ outcome = NoOutcome
    /\ sent = <<>>
    /\ updates = <<>>
    /\ inflight = 0
    /\ wakeAt = 0
    /\ startedAt = 0
    /\ flights = [m \in Models |-> 0]
    /\ landed = <<>>
    /\ snapshot = NoSnapshot
    /\ cancelled = FALSE
    /\ requests = 0
    /\ ticks = 0
    /\ clock = StartTime
    /\ history = <<>>
    /\ errState = JsNull
    /\ toasts = <<>>
    /\ toastCount = 0
    /\ timers = EmptyMap
    /\ addedAt = EmptyMap

Init ==
    /\ modelHealth = EmptyMap
    /\ InitRequest

\* POST from its entry to the first callOpenRouter, or to an early return
Handle(prov, body) ==
    /\ pc \in {"idle", "done"}
    /\ requests' = requests + 1
    /\ provider' = prov
    /\ reqBody' = body
    /\ lastError' = JsNull
    /\ delay' = 0
    /\ calls' = <<>>
    /\ waits' = <<>>
    /\ statuses' = {}
    /\ outcome' = NoOutcome
    /\ sent' = <<>>
    /\ updates' = <<>>
    /\ wakeAt' = 0
    /\ excluded' = { m \in Models : ~IsHealthy(modelHealth, m, now) }
    /\ attempt' = 0
    /\ IF ~body.json \/ MessagesRejected(Messages(body))
       THEN /\ response' = IF ~body.json THEN ServerErrorResponse
                                         ELSE ValidationResponse
            /\ basePayload' = NoPayload
            /\ availableModels' = <<>>
            /\ mi' = 0
            /\ pc' = "done"
       ELSE /\ basePayload' = BasePayload(body)
            /\ availableModels' = AvailableModels(prov, modelHealth, now)
            /\ IF Len(availableModels') = 0
               THEN /\ response' = NoCandidatesResponse
                    /\ mi' = 0
                    /\ pc' = "done"
               ELSE /\ response' = NoResponse
                    /\ mi' = 1
                    /\ pc' = "call"
    /\ UNCHANGED <<aside, startedAt, modelHealth, now, pending, inflight, ticks>>

\* attempt++ and the loop tests of lines 160 and 159: the next callOpenRouter of
\* the same model, or of the next model, or the final return of lines 222-230
NextIteration(modelConfig, err) ==
    IF MoreAttempts(modelConfig, attempt + 1)
    THEN /\ attempt' = attempt + 1
         /\ pc' = "call"
         /\ UNCHANGED <<mi, response>>
    ELSE IF mi < Len(availableModels)
         THEN /\ mi' = mi + 1
              /\ attempt' = 0
              /\ pc' = "call"
              /\ UNCHANGED response
         ELSE /\ response' = AggregateResponse(err, modelHealth')
              /\ pc' = "done"
              /\ UNCHANGED <<mi, attempt>>

\* the rest of a loop iteration after a retryable failure `err` (lines 196-206 and
\* 209-217), up to the next suspension point or to the final return
Continue(modelConfig, err, d) ==
    /\ lastError' = err
    /\ IF AttemptsRemain(modelConfig, attempt)
       THEN /\ pc' = "sleep"
            /\ delay' = d
            /\ wakeAt' = now' + d
            /\ waits' = Append(waits, [model |-> modelConfig.model,
                                       attempt |-> attempt, delay |-> d])
            /\ UNCHANGED <<mi, attempt, response>>
       ELSE /\ UNCHANGED <<delay, wakeAt, waits>>
            /\ NextIteration(modelConfig, err)

\* what POST does with the value callOpenRouter returned (lines 164-206)
HandleResult(modelConfig, result) ==
    IF IsSuccess(result)
    THEN /\ response' = SuccessResponse(modelConfig, attempt, result)
         /\ pc' = "done"
         /\ UNCHANGED <<mi, attempt, lastError, delay, wakeAt, waits>>
    ELSE IF ~shouldFallback(result)
         THEN /\ response' = FatalResponse(modelConfig, attempt, result)
              /\ pc' = "done"
              /\ UNCHANGED <<mi, attempt, lastError, delay, wakeAt, waits>>
         ELSE Continue(modelConfig, HttpError(modelConfig, attempt, result),
                       Backoff(attempt))

\* the end of a callOpenRouter at time now', and what POST makes of it: the health
\* update of line 99 or 104, then the value returned to line 164 or the error
\* thrown to line 209
Settle(reply, responseTime) ==
    LET modelConfig == availableModels[mi]
    IN  /\ modelHealth' =
               HealthAfterCall(modelHealth, modelConfig.model, reply, responseTime, now')
        /\ updates' = UpdatesAfterCall(updates, modelConfig.model, reply)
        /\ calls' = Append(calls, [model |-> modelConfig.model,
                                   attempt |-> attempt + 1])
        /\ IF Raises(reply)
           THEN /\ outcome' = [threw |-> TRUE, result |-> [message |-> reply.raw]]
                /\ UNCHANGED statuses
                /\ Continue(modelConfig, ThrownError(modelConfig, attempt),
                            ErrorDelay(attempt))
           ELSE /\ outcome' = [threw |-> FALSE,
                               result |-> CallResult(reply, responseTime)]
                /\ statuses' = statuses \cup {reply.status}
                /\ HandleResult(modelConfig, CallResult(reply, responseTime))

\* one callOpenRouter of the loop and the handling of its outcome, in one step
Attempt(reply, responseTime) ==
    /\ pc = "call"
    /\ startedAt' = now
    /\ now' = now + responseTime
    /\ sent' = Append(sent, Body(basePayload, availableModels[mi].model))
    /\ Settle(reply, responseTime)
    /\ UNCHANGED <<aside, provider, reqBody, basePayload, availableModels, excluded,
                   pending, inflight, requests, ticks>>

\* the setTimeout of line 205 or 216 fires and the loop goes on with attempt++
Sleep ==
    /\ pc = "sleep"
    /\ now' = WakeTime(now, delay)
    /\ UNCHANGED <<aside, startedAt, modelHealth, provider, reqBody, basePayload, availableModels,
                   lastError, delay, pending, calls, waits, statuses, excluded,
                   outcome, sent, updates, inflight, wakeAt, requests, ticks>>
    /\ NextIteration(availableModels[mi], lastError)

\* time passes while no request is being served
Tick(gap) ==
    /\ pc \in {"idle", "done"}
    /\ ticks < MaxTicks
    /\ ticks' = ticks + 1
    /\ now' = now + gap
    /\ UNCHANGED <<aside, startedAt, modelHealth, pc, provider, reqBody, basePayload, availableModels, mi,
                   attempt, lastError, delay, pending, response, calls, waits,
                   statuses, excluded, outcome, sent, updates, inflight, wakeAt,
                   requests>>

\* a request arrives
POST(prov, body) ==
    /\ requests < MaxRequests
    /\ Handle(prov, body)

\* a request with messages arrives, in the long-running specification
LongPOST(prov) ==
    /\ requests < MaxLongRequests
    /\ Handle(prov, LongBody)

\* Spec: a few requests, one after the other, with every kind of upstream reply
Next ==
    \/ \E prov \in Providers, body \in RequestBodies : POST(prov, body)
    \/ \E reply \in Replies : \E rt \in ReplyTimes(reply) : Attempt(reply, rt)
    \/ Sleep

Spec == Init /\ [][Next]_vars

\* LongSpec: more requests and idle time between them, so that the health map
\* reaches unhealthy records; the upstream either completes or is unreachable
LongNext ==
    \/ \E prov \in Providers : LongPOST(prov)
    \/ \E reply \in LongReplies : Attempt(reply, 16000)
    \/ Sleep
    \/ \E gap \in IdleGaps : Tick(gap)

LongSpec == Init /\ [][LongNext]_vars

---------------------------------------------------------------------------
(* One request in detail: callOpenRouter from await to await *)

\* the frame of the steps inside callOpenRouter
InCall == UNCHANGED <<aside, startedAt, provider, reqBody, basePayload, availableModels, excluded,
                      sent, requests, ticks>>

\* lines 70-86: the timer is armed and the request is sent
StartCall ==
    /\ pc = "call"
    /\ pc' = "fetch"
    /\ startedAt' = now
    /\ inflight' = inflight + 1
    /\ sent' = Append(sent, Body(basePayload, availableModels[mi].model))
    /\ UNCHANGED <<aside, modelHealth, now, provider, reqBody, basePayload, availableModels, mi,
                   attempt, lastError, delay, pending, response, calls, waits,
                   statuses, excluded, outcome, updates, wakeAt, requests, ticks>>

\* lines 76-89: fetch resolves with a response after responseTime ms, the timer
\* is cleared, and res.text() starts
FetchResolves(reply, responseTime) ==
    /\ pc = "fetch"
    /\ ~reply.threw
    /\ now' = now + responseTime
    /\ pending' = {[reply |-> reply, responseTime |-> responseTime]}
    /\ pc' = "read"
    /\ UNCHANGED <<aside, startedAt, modelHealth, provider, reqBody, basePayload, availableModels, mi,
                   attempt, lastError, delay, response, calls, waits, statuses,
                   excluded, outcome, sent, updates, inflight, wakeAt, requests,
                   ticks>>

\* lines 102-106 after fetch rejected (the network failed)
FetchFails ==
    /\ pc = "fetch"
    /\ now' = now
    /\ inflight' = inflight - 1
    /\ UNCHANGED pending
    /\ Settle(FetchRejects, 0)
    /\ InCall

\* line 73: the timer fires after `timeout` ms and aborts the fetch, which rejects
TimeoutFires ==
    /\ pc = "fetch"
    /\ now' = now + DefaultTimeout
    /\ inflight' = inflight - 1
    /\ UNCHANGED pending
    /\ Settle(TimerAborts, 0)
    /\ InCall

\* lines 90-100: the body text arrives bodyTime ms after the status, is parsed,
\* and the result is returned
ReadEnds(bodyTime) ==
    /\ pc = "read"
    /\ now' = now + bodyTime
    /\ inflight' = inflight - 1
    /\ pending' = {}
    /\ \E p \in pending : Settle(p.reply, p.responseTime)
    /\ InCall

\* the body arrives with the status
ReadResolves == ReadEnds(0)

\* the body arrives later than the status
SlowReadResolves == \E bodyTime \in SlowBodyTimes : ReadEnds(bodyTime)

\* lines 102-106 after res.text() rejected (the connection broke in the body)
ReadFails ==
    /\ pc = "read"
    /\ now' = now
    /\ inflight' = inflight - 1
    /\ pending' = {}
    /\ Settle(BodyFails, 0)
    /\ InCall

\* the one request of the detailed specification arrives
DetailPOST(prov, body) ==
    /\ pc = "idle"
    /\ Handle(prov, body)

DetailInit ==
    /\ modelHealth \in DetailHealthMaps
    /\ InitRequest

\* DetailSpec: one request against a process with a history, callOpenRouter taken
\* from await to await
DetailNext ==
    \/ \E prov \in Providers, body \in DetailBodies : DetailPOST(prov, body)
    \/ StartCall
    \/ \E reply \in DetailReplies : FetchResolves(reply, 16000)
    \/ FetchFails
    \/ TimeoutFires
    \/ ReadResolves
    \/ ReadFails
    \/ Sleep

DetailSpec == DetailInit /\ [][DetailNext]_vars

\* HistorySpec: several requests, one after the other, and idle time between them,
\* against a process with a history
HistoryPOST(prov) ==
    /\ requests < MaxHistoryRequests
    /\ Handle(prov, LongBody)

HistoryNext ==
    \/ \E prov \in Providers : HistoryPOST(prov)
    \/ \E reply \in LongReplies : Attempt(reply, 16000)
    \/ Sleep
    \/ \E gap \in IdleGaps : Tick(gap)

HistorySpec == DetailInit /\ [][HistoryNext]_vars

\* the steps of a request that has arrived
CallSteps ==
    \/ StartCall
    \/ \E reply \in DetailReplies : FetchResolves(reply, 16000)
    \/ FetchFails
    \/ TimeoutFires
    \/ ReadResolves
    \/ ReadFails
    \/ Sleep

---------------------------------------------------------------------------
(* Several requests at once: their calls of callOpenRouter overlap, and each call
   ends in one uninterrupted run of lines 88-100 or 102-105 *)

\* the number of calls in flight
InFlight(f) == f[GROK] + f[DEEPSEEK] + f[LLAMA]

\* the frame of the steps of the other requests
OneRequestIdle ==
    UNCHANGED <<pc, provider, availableModels, mi, attempt, lastError, delay,
                response, calls, waits, statuses, excluded, outcome, requests,
                ticks, reqBody, basePayload, pending, sent, updates, inflight,
                wakeAt, startedAt, client>>

\* line 162 of some request: a callOpenRouter(m, ..) starts
Launch(m) ==
    /\ InFlight(flights) < MaxFlights
    /\ Len(landed) + InFlight(flights) < MaxLandings
    /\ flights' = [flights EXCEPT ![m] = @ + 1]
    /\ UNCHANGED <<modelHealth, now, landed, snapshot, cancelled>>
    /\ OneRequestIdle

\* one of the calls in flight ends, responseTime ms later: line 99 or line 104
Land(m, reply, responseTime) ==
    /\ flights[m] > 0
    /\ flights' = [flights EXCEPT ![m] = @ - 1]
    /\ now' = now + responseTime
    /\ modelHealth' = HealthAfterCall(modelHealth, m, reply, responseTime, now')
    /\ landed' = Append(landed, [model |-> m,
                                 success |-> ~reply.threw /\ ResOk(reply.status),
                                 responseTime |-> responseTime,
                                 at |-> now'])
    /\ UNCHANGED <<snapshot, cancelled>>
    /\ OneRequestIdle

\* mutant: the response lists every configured model
GetBodyAllModels(mh) ==
    [healthy |-> TRUE, models |-> [m \in Models |-> HealthGet(mh, m)],
     configs |-> MODEL_KEYS]

\* the body of the GET response (line 246-251), but for its timestamp
GetBody(mh) ==
    [healthy |-> TRUE, models |-> mh,
     configs |-> MODEL_KEYS]

\* GET: the diagnostics endpoint answers
GET ==
    /\ snapshot' = GetBody(modelHealth)
    /\ snapshot' # snapshot
    /\ UNCHANGED <<modelHealth, now, flights, landed, cancelled>>
    /\ OneRequestIdle

ConcNext ==
    \/ \E m \in Models : Launch(m)
    \/ \E m \in Models, reply \in ConcReplies :
           \E rt \in ReplyTimes(reply) : Land(m, reply, rt)
    \/ GET

ConcSpec == Init /\ [][ConcNext]_vars

\* a callOpenRouter(m, ..) of another request starts while the request followed is
\* being served
CrowdLaunch(m) ==
    /\ pc \notin {"idle", "done"}
    /\ Len(landed) + InFlight(flights) < MaxCrowdCalls
    /\ Launch(m)

\* CrowdSpec: one request followed from call to call, against a process with a
\* history, while calls of other requests start and end
CrowdNext ==
    \/ \E prov \in Providers : DetailPOST(prov, LongBody)
    \/ \E reply \in LongReplies : Attempt(reply, 16000)
    \/ Sleep
    \/ \E m \in Models : CrowdLaunch(m)
    \/ \E m \in Models, reply \in LongReplies : Land(m, reply, 0)

CrowdSpec == DetailInit /\ [][CrowdNext]_vars

\* WatchSpec: one request with messages, and the diagnostics endpoint read at any
\* moment of it
WatchNext ==
    \/ \E prov \in Providers : DetailPOST(prov, LongBody)
    \/ CallSteps
    \/ GET

WatchSpec == DetailInit /\ [][WatchNext]_vars

\* the caller of the request being served disconnects: POST never reads
\* req.signal, so nothing in the handler changes
Disconnect ==
    /\ pc \in {"call", "fetch", "read", "sleep"}
    /\ ~cancelled
    /\ cancelled' = TRUE
    /\ UNCHANGED <<modelHealth, now, flights, landed, snapshot>>
    /\ OneRequestIdle

\* the fetch of line 76 ends: it resolves, it rejects, or the timer aborts it
FetchEnds ==
    \/ \E reply \in DetailReplies : FetchResolves(reply, 16000)
    \/ FetchFails
    \/ TimeoutFires

\* EnvSpec: one request with messages, a caller that may go, and bodies that may
\* arrive late or never.  Timers fire and the loop runs on; the timer of line 73
\* ends every fetch; nothing ends the read of a body
EnvNext ==
    \/ \E prov \in Providers : DetailPOST(prov, LongBody)
    \/ CallSteps
    \/ SlowReadResolves
    \/ Disconnect

EnvSpec ==
    /\ DetailInit
    /\ [][EnvNext]_vars
    /\ WF_vars(StartCall)
    /\ WF_vars(FetchEnds)
    /\ WF_vars(Sleep)

\* the read of a body ends: the text arrives or the connection breaks
ReadSettles == ReadResolves \/ ReadFails

\* FairSpec: one request with messages whose every callOpenRouter ends (the fetch
\* and the body read both settle) and whose every backoff timer fires
FairNext ==
    \/ \E prov \in Providers : DetailPOST(prov, LongBody)
    \/ CallSteps

FairSpec ==
    /\ DetailInit
    /\ [][FairNext]_vars
    /\ WF_vars(StartCall)
    /\ WF_vars(FetchEnds)
    /\ WF_vars(ReadSettles)
    /\ WF_vars(Sleep)

---------------------------------------------------------------------------
(* The studio page: StudioTabsClient.tsx, the generation history *)

\* the outcomes of validate*Output(result.final_prompt): no error, or its text
ValidationErrors == {JsNull, JsString("Output failed validation")}

\* the answers of /api/generate-prompt: r.ok && j.success, or not
GenerateReplies == {TRUE, FALSE}

\* the entry of lines 214-221, of which the model keeps the time
Entry(t) == [id |-> t, timestamp |-> t]

\* prev.slice(0, n)
Slice(prev, n) == SubSeq(prev, 1, Min(Len(prev), n))

\* mutant: fifty earlier entries are kept
saveToHistoryKeepFifty(prev, entry) == <<entry>> \o Slice(prev, 50)

\* the updater of line 223: [entry, ...prev.slice(0, 49)]
saveToHistory(prev, entry) == <<entry>> \o Slice(prev, 49)

\* the frame of the steps of the studio page
StudioStep == UNCHANGED <<server, toasts, toastCount, timers, addedAt>>

\* optimize() with a template picked, lines 258-269 and 272-308: the answer of the
\* generator is read, validated, and saved when it is valid, one ms after the
\* save before
optimize(replyOk, vErr) ==
    /\ clock - StartTime < MaxSaves
    /\ IF ~replyOk
       THEN /\ errState' = JsString("Optimize failed")
            /\ UNCHANGED <<history, clock>>
       ELSE IF Truthy(vErr)
            THEN /\ errState' = vErr
                 /\ UNCHANGED <<history, clock>>
            ELSE /\ errState' = JsNull
                 /\ clock' = clock + 1
                 /\ history' = saveToHistory(history, Entry(clock'))
    /\ StudioStep

\* the Clear button of the history panel, line 414
clearHistory ==
    /\ history # <<>>
    /\ history' = <<>>
    /\ UNCHANGED <<clock, errState>>
    /\ StudioStep

StudioNext ==
    \/ \E replyOk \in GenerateReplies, vErr \in ValidationErrors :
           optimize(replyOk, vErr)
    \/ clearHistory

StudioSpec == Init /\ [][StudioNext]_vars

---------------------------------------------------------------------------
(* The toasts: toast.tsx *)

\* toast.duration as addToast receives it: absent, or a number of ms
Durations == {UNDEFINED, 2000}

\* the step of the browser clock, in ms
Second == 1000

\* duration = 5000 of line 21: the default applies to an absent duration
Duration(toast) == IF toast.duration = UNDEFINED THEN 5000 ELSE toast.duration

\* the ids of a list of toasts
Ids(list) == { list[i].id : i \in DOMAIN list }

\* the toast of a list with a given id
ToastOf(list, id) == list[CHOOSE i \in DOMAIN list : list[i].id = id]

\* the timers after the host rendered `list` at time t. Each render calls useToast
\* again, which builds a new removeToast and a new ToastContainer (lines 70-86): the
\* ToastItems of the render before are unmounted, which clears their timers (line
\* 24), and those of the new list are mounted, which arms a timer of the full
\* duration for each (line 23)
Rendered(list, t) == [id \in Ids(list) |-> t + Duration(ToastOf(list, id))]

\* prev.filter(toast => toast.id !== id) of line 71
Without(list, id) == SelectSeq(list, LAMBDA toast : toast.id # id)

\* the frame of the steps of the toasts
ToastStep == UNCHANGED <<server, history, errState>>

\* addToast of lines 64-68, and the render that follows the state change
addToast(duration) ==
    /\ toastCount < MaxToasts
    /\ toastCount' = toastCount + 1
    /\ toasts' = Append(toasts, [id |-> toastCount', duration |-> duration])
    /\ addedAt' = [id \in DOMAIN addedAt \cup {toastCount'} |->
                       IF id = toastCount' THEN clock ELSE addedAt[id]]
    /\ timers' = Rendered(toasts', clock)
    /\ UNCHANGED clock
    /\ ToastStep

\* removeToast of lines 70-72, and the render that follows the state change
removeToast(id) ==
    /\ toasts' = Without(toasts, id)
    /\ timers' = Rendered(toasts', clock)
    /\ UNCHANGED <<clock, toastCount, addedAt>>
    /\ ToastStep

\* the close button of a toast is clicked, line 53
Close(id) ==
    /\ id \in Ids(toasts)
    /\ removeToast(id)

\* the timer of a toast comes due and calls onClose(id), line 23
TimerFires(id) ==
    /\ id \in DOMAIN timers
    /\ timers[id] = clock
    /\ removeToast(id)

\* a second passes in which no timer is overdue
Elapse ==
    /\ clock + Second <= StartTime + MaxSeconds * Second
    /\ \A id \in DOMAIN timers : clock + Second <= timers[id]
    /\ clock' = clock + Second
    /\ UNCHANGED <<toasts, toastCount, timers, addedAt>>
    /\ ToastStep

ToastNext ==
    \/ \E duration \in Durations : addToast(duration)
    \/ \E id \in 1..MaxToasts : Close(id)
    \/ \E id \in 1..MaxToasts : TimerFires(id)
    \/ Elapse

ToastSpec == Init /\ [][ToastNext]_vars

---------------------------------------------------------------------------
(* Vocabulary of the properties *)

Priority(m) == ConfigOf(m).priority
Budget(m) == ConfigOf(m).maxRetries

\* the step is a callOpenRouter of the request being served
IsCall == calls' # calls /\ requests' = requests

\* the step is a callOpenRouter that returned an HTTP reply
IsReply == IsCall /\ ~outcome'.threw

\* the call the step made
TheCall == calls'[Len(calls')]

\* the number of calls the orchestration made to model m
CallsTo(m) == Cardinality({ i \in DOMAIN calls : calls[i].model = m })

\* after the call of this step the orchestration goes on as after a retryable
\* failure: it waits d ms and stays on the model if attempts remain for it, and
\* otherwise starts the next candidate at once, or ends with the aggregate failure
\* when there is none
GoesOn(d) ==
    IF TheCall.attempt < Budget(TheCall.model)
    THEN /\ pc' = "sleep"
         /\ delay' = d
         /\ waits' = Append(waits, [model |-> TheCall.model,
                                    attempt |-> TheCall.attempt - 1, delay |-> d])
         /\ mi' = mi
         /\ response'.kind = "none"
    ELSE /\ waits' = waits
         /\ IF mi < Len(availableModels)
            THEN /\ pc' = "call"
                 /\ mi' = mi + 1
                 /\ attempt' = 0
                 /\ response'.kind = "none"
            ELSE /\ pc' = "done"
                 /\ response'.kind = "aggregate"

\* the sum of maxRetries over a candidate list
RECURSIVE SumBudgets(_)
SumBudgets(models) ==
    IF models = <<>> THEN 0 ELSE Head(models).maxRetries + SumBudgets(Tail(models))

\* the calls that exhaust every model of a candidate list, in order
RECURSIVE ExhaustiveCalls(_)
ExhaustiveCalls(models) ==
    IF models = <<>> THEN <<>>
    ELSE [k \in 1..Head(models).maxRetries |->
              [model |-> Head(models).model, attempt |-> k]]
         \o ExhaustiveCalls(Tail(models))

\* the attempt entries an aggregate-failure body carries: its lastError
ReportedAttempts(body) ==
    IF "model" \in DOMAIN body.lastError THEN <<body.lastError>> ELSE <<>>

\* the latest call ended in a retryable way
LastRetryable ==
    \/ outcome.threw
    \/ /\ ~outcome.result.ok
       /\ \/ outcome.result.status \in {402, 429, 500, 502, 503, 504}
          \/ ErrorCode(outcome.result.data) \in
                {"insufficient_quota", "insufficient_provider_quota",
                 "payment_required", "rate_limited"}

\* model m is what the named provider hint asks for
HintMatches(m, prov) == <<prov, m>> \in {<<"grok", GROK>>, <<"deepseek", DEEPSEEK>>}

\* the step leaves the orchestration where it is: no call, no wait, same response
Quiet == calls' = calls /\ waits' = waits /\ response' = response /\ pc' = pc

---------------------------------------------------------------------------
(* Properties *)

\* C1: within one orchestration the calls go through the candidate models in
\* ascending priority order: no call to a lower-priority model is followed by a
\* call to a higher-priority one, the calls of one model are consecutive and
\* numbered 1, 2, ..., and the next model is started only when the budget of the
\* current one is used up.
C1_AscendingPriorityOrder ==
    \A i, j \in DOMAIN calls :
        /\ i < j => Priority(calls[i].model) <= Priority(calls[j].model)
        /\ j = i + 1 =>
              IF calls[i].model = calls[j].model
              THEN calls[j].attempt = calls[i].attempt + 1
              ELSE /\ Priority(calls[i].model) < Priority(calls[j].model)
                   /\ calls[i].attempt = Budget(calls[i].model)
                   /\ calls[j].attempt = 1

\* C1 witness: an automatic request that went through all three models
C1_Witness ==
    /\ provider = "auto"
    /\ Len(calls) = 6
    /\ calls[1].model = GROK /\ calls[3].model = DEEPSEEK /\ calls[6].model = LLAMA

\* C2: a call that returns HTTP success with a parsed body ends the orchestration
\* with SUCCESS in that very step, with no wait, and from then on the orchestration
\* makes no call and no wait.
C2_SuccessTerminates ==
    /\ [][ (IsReply /\ outcome'.result.ok /\ outcome'.result.data.tag = "object")
             => (response'.kind = "success" /\ pc' = "done" /\ waits' = waits) ]_vars
    /\ [][ (response.kind = "success" /\ requests' = requests) => Quiet ]_vars

\* C2 witness: SUCCESS on the first attempt of the first model while untried
\* attempts and models remain
C2_Witness ==
    /\ response.kind = "success"
    /\ Len(calls) = 1
    /\ Len(availableModels) = 3
    /\ waits = <<>>

\* C3: an HTTP failure whose status is not fallback-eligible and whose body has
\* no quota / rate-limit code aborts the orchestration at that attempt: the caller
\* gets that failure (model, status, attempt number, body), and no further call
\* or wait follows.
C3_FatalAborts ==
    /\ [][ (IsReply /\ ~outcome'.result.ok
                    /\ outcome'.result.status \notin {402, 429, 500, 502, 503, 504}
                    /\ ErrorCode(outcome'.result.data) \notin
                          {"insufficient_quota", "insufficient_provider_quota",
                           "payment_required", "rate_limited"})
             => /\ response'.kind = "fatal"
                /\ pc' = "done"
                /\ waits' = waits
                /\ response'.status = outcome'.result.status
                /\ response'.body.model_attempted = TheCall.model
                /\ response'.body.status = outcome'.result.status
                /\ response'.body.attempt = TheCall.attempt
                /\ response'.body.details =
                      IF outcome'.result.data.tag = "object"
                      THEN outcome'.result.data
                      ELSE outcome'.result.raw ]_vars
    /\ [][ (response.kind = "fatal" /\ requests' = requests) => Quiet ]_vars

\* C3 witness: a 400 on the first attempt aborted while two models were untried
C3_Witness ==
    /\ response.kind = "fatal"
    /\ response.status = 400
    /\ Len(calls) = 1
    /\ Len(availableModels) = 3


\* C4 as stated: whatever its status, a reply whose status is fallback-eligible or
\* whose body carries a quota / rate-limit code is not FATAL and the orchestration
\* retries the model or moves on to the next one.
C4_Original ==
    [][ (IsReply /\ (\/ outcome'.result.status \in {402, 429, 500, 502, 503, 504}
                     \/ ErrorCode(outcome'.result.data) \in
                           {"insufficient_quota", "insufficient_provider_quota",
                            "payment_required", "rate_limited"}))
          => \E d \in {1000, 2000, 4000} : GoesOn(d) ]_vars

\* C4 amended: an HTTP failure (a reply that is not ok) whose status is
\* fallback-eligible or whose body carries a quota / rate-limit code is never
\* FATAL: the orchestration retries the model if attempts remain and otherwise
\* moves on to the next model.
C4_RetryableNeverFatal ==
    [][ (IsReply /\ ~outcome'.result.ok
                 /\ (\/ outcome'.result.status \in {402, 429, 500, 502, 503, 504}
                     \/ ErrorCode(outcome'.result.data) \in
                           {"insufficient_quota", "insufficient_provider_quota",
                            "payment_required", "rate_limited"}))
          => \E d \in {1000, 2000, 4000} : GoesOn(d) ]_vars

\* C4 witness: a 400 whose body carries a rate-limit code is being retried
C4_Witness ==
    /\ pc = "sleep"
    /\ ~outcome.threw
    /\ outcome.result.status = 400
    /\ ErrorCode(outcome.result.data) = "rate_limited"

\* C5: a model is never called more than maxRetries times and is called exactly
\* maxRetries times once the orchestration has gone past it; after the k-th
\* retryable HTTP failure of a model (k from 0) the orchestrator waits 2^k * 1000
\* ms and then calls the same model again; k restarts at 0 with each model; no
\* wait follows the last attempt of a model.
C5_RetryBudgetAndBackoff ==
    /\ [](\A j \in DOMAIN availableModels :
             LET m == availableModels[j].model
             IN  /\ CallsTo(m) <= Budget(m)
                 /\ (j < mi \/ response.kind = "aggregate") => CallsTo(m) = Budget(m))
    /\ [][ (IsReply /\ ~outcome'.result.ok
                    /\ (\/ outcome'.result.status \in {402, 429, 500, 502, 503, 504}
                        \/ ErrorCode(outcome'.result.data) \in
                              {"insufficient_quota", "insufficient_provider_quota",
                               "payment_required", "rate_limited"}))
             => /\ TheCall.attempt = attempt + 1
                /\ GoesOn((2 ^ attempt) * 1000) ]_vars
    /\ [][ pc = "sleep"
             => (pc' = "call" /\ mi' = mi /\ attempt' = attempt + 1
                 /\ now' = now + delay /\ calls' = calls) ]_vars
    /\ [][ (mi' # mi /\ requests' = requests) => attempt' = 0 ]_vars

\* C5 witness: three models failed on every attempt; grok waited 1 s once,
\* deepseek 1 s then 2 s, and no wait preceded a change of model
C5_Witness ==
    /\ Len(calls) = 6
    /\ waits = << [model |-> GROK, attempt |-> 0, delay |-> 1000],
                  [model |-> DEEPSEEK, attempt |-> 0, delay |-> 1000],
                  [model |-> DEEPSEEK, attempt |-> 1, delay |-> 2000] >>
    /\ response.kind = "aggregate"

\* C6: a thrown transport error never aborts the orchestration: it waits a fixed
\* 1000 ms and retries the model if attempts remain, otherwise moves on to the
\* next model (or ends with the aggregate failure after the last one), and the
\* throwing call counts against the budget of the model.
C6_TransportErrorRetried ==
    /\ [][ (IsCall /\ outcome'.threw)
             => /\ TheCall.attempt = attempt + 1
                /\ GoesOn(1000) ]_vars
    /\ [](\A m \in Models : CallsTo(m) <= Budget(m))

\* C6 witness: the second attempt on deepseek threw and is followed by a wait of
\* 1000 ms, where an HTTP failure would have waited 2000 ms
C6_Witness ==
    /\ pc = "sleep"
    /\ outcome.threw
    /\ waits[Len(waits)] = [model |-> DEEPSEEK, attempt |-> 1, delay |-> 1000]


C8_Original ==
    response.kind = "aggregate" => \A st \in statuses : st # response.status

\* C8 amended: the status of an aggregate failure is the fixed code 502, and no
\* other kind of response (success, fatal failure, no candidates, validation
\* error, server error) has that status; it can equal the upstream status of an attempt, 502
\* being a fallback-eligible status itself.
C8_AggregateStatusFixed ==
    response.kind # "none" => (response.kind = "aggregate" <=> response.status = 502)

\* C8 witness: an aggregate failure of an orchestration in which the upstream
\* answered 502
C8_Witness ==
    /\ response.kind = "aggregate"
    /\ 502 \in statuses

\* C9 as stated: a SUCCESS reports the model whose call succeeded and the 1-based
\* index of that call in the retry loop of that model.
C9_Original ==
    response.kind = "success"
        => /\ response.body.model_used = calls[Len(calls)].model
           /\ response.body.attempt = calls[Len(calls)].attempt

\* C10: the health filter is applied only under 'auto': an automatic orchestration
\* never calls a model that was unhealthy when it started, and under a named
\* provider the matching model is a candidate whatever its health.
C10_HealthFilterOnlyForAuto ==
    /\ provider = "auto"
          => /\ \A i \in DOMAIN calls : calls[i].model \notin excluded
             /\ \A j \in DOMAIN availableModels : availableModels[j].model \notin excluded
    /\ (provider # "auto" /\ pc # "idle"
           /\ response.kind \notin {"validation", "server_error"})
          => \A m \in Models :
                HintMatches(m, provider)
                    => \E j \in DOMAIN availableModels : availableModels[j].model = m

\* C10 witness: an automatic orchestration that started with grok unhealthy and
\* called another model
C10_Witness ==
    /\ provider = "auto"
    /\ GROK \in excluded
    /\ calls # <<>>

\* the other case of C10: grok is called under provider 'grok' while unhealthy
C10_ExplicitCase ==
    /\ provider = "grok"
    /\ GROK \in excluded
    /\ calls # <<>>


\* the models getHealthyModels returns in the current state
HealthyNow ==
    { getHealthyModels(modelHealth, now)[i].model :
          i \in DOMAIN getHealthyModels(modelHealth, now) }

\* C11: a model is left out as unhealthy exactly when it has a health record whose
\* failure count is greater than 3 and whose last success is more than 300000 ms
\* old; a model without a record, with at most 3 failures, or with a success at
\* most 300000 ms old is kept
C11_UnhealthyExactlyWhen ==
    \A m \in Models :
        m \notin HealthyNow <=>
            /\ m \in DOMAIN modelHealth
            /\ modelHealth[m].failures > 3
            /\ now - modelHealth[m].lastSuccess > 300000

\* a model that once succeeded, then failed 4 times or more, is left out once
\* its success is over 5 minutes old
C11_Witness ==
    \E m \in Models :
        /\ m \in DOMAIN modelHealth
        /\ modelHealth[m].failures >= 4
        /\ modelHealth[m].lastSuccess > 0
        /\ now - modelHealth[m].lastSuccess > 300000
        /\ m \notin HealthyNow

\* a model with 3 failures and no success for over 5 minutes is kept
C11_KeptCase ==
    \E m \in Models :
        /\ m \in DOMAIN modelHealth
        /\ modelHealth[m].failures = 3
        /\ now - modelHealth[m].lastSuccess > 300000
        /\ m \in HealthyNow

\* a model with 4 failures whose last success is about a minute old is kept
C11_RecentCase ==
    \E m \in Models :
        /\ m \in DOMAIN modelHealth
        /\ modelHealth[m].failures = 4
        /\ now - modelHealth[m].lastSuccess > 60000
        /\ now - modelHealth[m].lastSuccess <= 300000
        /\ m \in HealthyNow


\* the step is a callOpenRouter whose outcome the health tracker records as a
\* success (an ok reply), or as a failure (any other reply, or no reply)
IsRecordedSuccess == IsReply /\ outcome'.result.ok
IsRecordedFailure == IsCall /\ (outcome'.threw \/ ~outcome'.result.ok)

\* the record of the model the step called, before and after the step
RecordBefore == HealthGet(modelHealth, TheCall.model)
RecordAfter == modelHealth'[TheCall.model]

\* C12: the failure count of every model is >= 0 in every reachable state, and a
\* recorded success lowers the count of its model by exactly one, floored at 0
\* (5 becomes 4, 0 stays 0), never resetting it
C12_SuccessDecrementsFailures ==
    /\ [](\A m \in DOMAIN modelHealth : modelHealth[m].failures >= 0)
    /\ [][IsRecordedSuccess =>
             RecordAfter.failures =
                 IF RecordBefore.failures >= 1 THEN RecordBefore.failures - 1 ELSE 0]_vars

\* a success was just recorded for a model that had 5 failures and now has 4
C12_Witness ==
    /\ calls # <<>>
    /\ ~outcome.threw
    /\ outcome.result.ok
    /\ modelHealth[calls[Len(calls)].model].failures = 4

\* a success was just recorded for a model whose count was and stays 0
C12_FloorCase ==
    /\ requests = 1
    /\ Len(calls) = 1
    /\ ~outcome.threw
    /\ outcome.result.ok
    /\ modelHealth[calls[1].model].failures = 0

\* C13: recording a failed outcome for a model raises the failure count of that
\* model by exactly 1, leaves its last-success time and its average response time
\* as they were, and leaves the record of every other model as it was
C13_FailureFrame ==
    [][IsRecordedFailure =>
          /\ RecordAfter.failures = RecordBefore.failures + 1
          /\ RecordAfter.lastSuccess = RecordBefore.lastSuccess
          /\ RecordAfter.avgResponseTime = RecordBefore.avgResponseTime
          /\ \A m \in Models \ {TheCall.model} :
                /\ m \in DOMAIN modelHealth' <=> m \in DOMAIN modelHealth
                /\ m \in DOMAIN modelHealth => modelHealth'[m] = modelHealth[m]]_vars

\* a failure was just recorded for a model that has succeeded before, while another
\* model has a record of its own
C13_Witness ==
    /\ calls # <<>>
    /\ outcome.threw \/ ~outcome.result.ok
    /\ modelHealth[calls[Len(calls)].model].lastSuccess > 0
    /\ modelHealth[calls[Len(calls)].model].avgResponseTime > 0
    /\ modelHealth[calls[Len(calls)].model].failures >= 1
    /\ \E m \in DOMAIN modelHealth : m # calls[Len(calls)].model

\* C14 as stated: a recorded success sets the last-success time to the current
\* time and, for every elapsed time supplied, 0 ms included, replaces the average
\* response time by (previous average + elapsed) / 2; the average is never negative
C14_Original ==
    /\ [](\A m \in DOMAIN modelHealth : modelHealth[m].avgResponseTime >= 0)
    /\ [][IsRecordedSuccess =>
             /\ RecordAfter.lastSuccess = now'
             /\ RecordAfter.avgResponseTime =
                    (RecordBefore.avgResponseTime + outcome'.result.responseTime) \div 2]_vars

\* what holds of a recorded success: the last-success time is the current time, and
\* the average is replaced for every elapsed time but 0 ms, which leaves it as it was
C14_NonZeroElapsedAveraged ==
    /\ [](\A m \in DOMAIN modelHealth : modelHealth[m].avgResponseTime >= 0)
    /\ [][IsRecordedSuccess =>
             /\ RecordAfter.lastSuccess = now'
             /\ RecordAfter.avgResponseTime =
                    IF outcome'.result.responseTime = 0
                    THEN RecordBefore.avgResponseTime
                    ELSE (RecordBefore.avgResponseTime
                             + outcome'.result.responseTime) \div 2]_vars

\* a success with an elapsed time of 0 ms was just recorded for a model whose
\* average was not 0
C14_ZeroElapsedCase ==
    /\ calls # <<>>
    /\ ~outcome.threw
    /\ outcome.result.ok
    /\ outcome.result.responseTime = 0
    /\ modelHealth[calls[Len(calls)].model].avgResponseTime > 0


\* the number of updateModelHealth invocations the orchestration made for model m
UpdatesOf(m) == Cardinality({ i \in DOMAIN updates : updates[i] = m })

\* the step ends a callOpenRouter: it returns to POST or throws into it
CallEnds == inflight' < inflight

\* C15: every callOpenRouter reports to the health tracker exactly once, for the
\* model it called, in the step in which it returns or throws, however it ends (a
\* reply of any status, a rejected fetch, the timeout, a failed body read), and
\* nothing else reports: for each model the number of health updates equals the
\* number of calls made to it, and no call is left in flight when POST returns
C15_OneHealthUpdatePerCall ==
    /\ [](\A m \in Models : UpdatesOf(m) = CallsTo(m))
    /\ [](pc = "done" => inflight = 0)
    /\ [][CallEnds =>
             /\ updates' = Append(updates, availableModels[mi].model)
             /\ calls' = Append(calls, [model |-> availableModels[mi].model,
                                        attempt |-> attempt + 1])]_vars
    /\ [][~CallEnds /\ requests' = requests =>
             updates' = updates /\ modelHealth' = modelHealth]_vars

\* an orchestration ended after calls to several models, the last of which threw
C15_Witness ==
    /\ pc = "done"
    /\ outcome.threw
    /\ \E m1, m2 \in Models : m1 # m2 /\ CallsTo(m1) >= 2 /\ UpdatesOf(m2) >= 1


\* the max_tokens values sent upstream in this request
SentMaxTokens == { sent[i].max_tokens : i \in DOMAIN sent }

\* the value the claim gives for the max_tokens a request asks for
ClampedRequest ==
    IF reqBody.max_tokens.tag # "number" THEN 1200
    ELSE IF reqBody.max_tokens.num < 1 THEN 1
    ELSE IF reqBody.max_tokens.num > 2000 THEN 2000
    ELSE reqBody.max_tokens.num

\* C16: every call of an orchestration sends the same max_tokens, which is the
\* requested value clamped to [1, 2000] (0 and negative values give 1, values above
\* 2000 give 2000), or 1200 when the request carries none or one that is no number
C16_MaxTokensClamped ==
    /\ SentMaxTokens \subseteq {ClampedRequest}
    /\ \A v \in SentMaxTokens : v >= 1 /\ v <= 2000
    /\ calls # <<>> => SentMaxTokens # {}

\* an orchestration of several calls asked for more than the cap and sent the cap
C16_Witness ==
    /\ Len(calls) >= 2
    /\ reqBody.max_tokens = JsNumber(2001)
    /\ SentMaxTokens = {2000}

\* calls were made for a request with a negative, a string and no max_tokens
C16_NegativeCase ==
    Len(calls) >= 2 /\ reqBody.max_tokens = JsNumber(-5) /\ SentMaxTokens = {1}
C16_StringCase ==
    Len(calls) >= 2 /\ reqBody.max_tokens = JsString("500") /\ SentMaxTokens = {1200}
C16_AbsentCase ==
    Len(calls) >= 2 /\ reqBody.max_tokens = JsUndefined /\ SentMaxTokens = {1200}


\* the step is the arrival of a request
Arrives == requests' # requests

\* the messages of the request being served are missing, no list, or an empty list
MessagesRefused ==
    \/ reqBody.messages.tag = "undefined"
    \/ reqBody.messages.tag # "array"
    \/ reqBody.messages.tag = "array" /\ reqBody.messages.len = 0

\* the request being served has a body that parsed and carries a message list
Accepted == reqBody.json /\ ~MessagesRefused

C17_NullCase == reqBody.json /\ reqBody.messages = JsNull /\ response.status = 400
C17_StringCase ==
    reqBody.json /\ reqBody.messages = JsString("hello") /\ response.status = 400
C17_EmptyCase == reqBody.json /\ reqBody.messages = JsArray(0) /\ response.status = 400

\* C18: a valid request that finds no candidate model is answered at once with the
\* no-candidates error, whose status (503) is not the status of the aggregate
\* failure and whose body carries no attempt; no callOpenRouter is ever made for it
\* and the health map stays as it was
C18_NoCandidatesImmediate ==
    /\ [][Arrives /\ Accepted' /\ availableModels' = <<>> =>
             /\ response'.status = 503
             /\ response'.status # AggregateStatus
             /\ response'.body.message = "No healthy models available"
             /\ "lastError" \notin DOMAIN response'.body
             /\ pc' = "done"
             /\ modelHealth' = modelHealth]_vars
    /\ [](Accepted /\ availableModels = <<>> =>
             /\ pc = "done"
             /\ calls = <<>> /\ updates = <<>> /\ sent = <<>> /\ inflight = 0)

\* a valid request under "auto" found every model unhealthy and got the 503
C18_Witness ==
    /\ Accepted
    /\ provider = "auto"
    /\ excluded = Models
    /\ availableModels = <<>>
    /\ response.status = 503
    /\ calls = <<>>

\* C19 as stated: a provider hint other than "auto", "grok" and "deepseek" gives
\* the empty candidate list, hence the no-candidates error and no callOpenRouter;
\* "grok" and "deepseek" give only the models of that provider
C19_Original ==
    /\ [][Arrives /\ Accepted' =>
             IF provider' \notin {"auto", "grok", "deepseek"}
             THEN /\ availableModels' = <<>>
                  /\ response'.status = 503
                  /\ pc' = "done"
             ELSE provider' \in {"grok", "deepseek"} =>
                      \A i \in DOMAIN availableModels' :
                          HintMatches(availableModels'[i].model, provider')]_vars
    /\ [](Accepted /\ provider \notin {"auto", "grok", "deepseek"} => calls = <<>>)

\* what holds of the known tags: "grok" and "deepseek" give exactly the models of
\* that provider
C19_KnownTagOnly ==
    [][Arrives /\ Accepted' /\ provider' \in {"grok", "deepseek"} =>
          /\ availableModels' # <<>>
          /\ \A i \in DOMAIN availableModels' :
                HintMatches(availableModels'[i].model, provider')]_vars

\* what the unknown hint gives: every configured model, healthy or not
C19_UnknownHintTakesAll ==
    [][Arrives /\ Accepted' /\ provider' \notin {"auto", "grok", "deepseek"} =>
          availableModels' = MODEL_CONFIGS]_vars

\* a request with an unknown hint had a call made to a model that was unhealthy
C19_UnknownHintCase ==
    /\ Accepted
    /\ provider = "openai"
    /\ calls # <<>>
    /\ calls[Len(calls)].model \in excluded

\* the step starts a callOpenRouter
CallStarts == inflight' > inflight

\* C20: an orchestration has at most one callOpenRouter in flight: a call starts
\* only when the one before it has returned or thrown, and not before the backoff
\* wait that followed it has run out
C20_OneCallInFlight ==
    /\ [](inflight \in {0, 1})
    /\ [][CallStarts =>
             /\ inflight = 0
             /\ pending = {}
             /\ Len(updates) = Len(calls)
             /\ now >= wakeAt]_vars

\* a call is in flight that started when the backoff after the call before it ended
C20_Witness ==
    /\ inflight = 1
    /\ calls # <<>>
    /\ waits # <<>>
    /\ waits[Len(waits)].model = calls[Len(calls)].model
    /\ waits[Len(waits)].attempt + 1 = calls[Len(calls)].attempt
    /\ wakeAt > 0
    /\ now = wakeAt


\* the calls of model m that ended, in the order in which they ended
LandedOf(m) == SelectSeq(landed, LAMBDA l : l.model = m)

\* the record that results from applying outcomes one at a time to a record
RECURSIVE Replay(_, _)
Replay(health, outcomes) ==
    IF outcomes = <<>> THEN health
    ELSE Replay(UpdatedHealth(health, Head(outcomes).success,
                              Head(outcomes).responseTime, Head(outcomes).at),
                Tail(outcomes))

\* C21: with calls of several requests in flight at once, no health update is lost
\* or torn: the record of every model is what results from applying the outcomes of
\* its calls one at a time in the order in which they ended, and the end of a call to
\* one model leaves the records of the other models as they were
C21_NoLostUpdate ==
    /\ [](\A m \in Models :
             IF LandedOf(m) = <<>>
             THEN m \notin DOMAIN modelHealth
             ELSE /\ m \in DOMAIN modelHealth
                  /\ modelHealth[m] = Replay(DefaultHealth, LandedOf(m)))
    /\ [][landed' # landed =>
             \A m \in Models \ {landed'[Len(landed')].model} :
                 /\ m \in DOMAIN modelHealth' <=> m \in DOMAIN modelHealth
                 /\ m \in DOMAIN modelHealth => modelHealth'[m] = modelHealth[m]]_vars

\* calls to two models ended, a success and a failure among those of one of them,
\* while another call was still in flight
C21_Witness ==
    /\ InFlight(flights) >= 1
    /\ \E i, j, k \in DOMAIN landed :
          /\ i < j
          /\ landed[i].model = landed[j].model
          /\ landed[i].success # landed[j].success
          /\ landed[k].model # landed[i].model

\* the models that have a record
Recorded == DOMAIN modelHealth

\* C29: the health map holds records of configured models only, one per model; a
\* model has a record exactly when at least one call to it has ended, by returning
\* or by throwing; and no record is ever removed
C29_RecordsOnlyGrow ==
    /\ [](Recorded \subseteq Models)
    /\ [](Recorded = { landed[i].model : i \in DOMAIN landed })
    /\ [][Recorded \subseteq Recorded']_vars
    /\ [][Recorded' # Recorded =>
             /\ landed' # landed
             /\ Recorded' = Recorded \cup {landed'[Len(landed')].model}]_vars

\* two models have a record, one of them after a call that threw, and a third has
\* none while a call is in flight
C29_Witness ==
    /\ Cardinality(Recorded) = 2
    /\ InFlight(flights) >= 1
    /\ \E i \in DOMAIN landed :
          /\ ~landed[i].success
          /\ \A j \in DOMAIN landed : j # i => landed[j].model # landed[i].model


\* the step is an answer of the diagnostics endpoint
Diagnoses == snapshot' # snapshot

\* the step returns the aggregate failure
Aggregates == response' # response /\ response'.status = 502 /\ pc' = "done"

\* C30: reading the health map never changes it. An answer of GET leaves every
\* record and the set of recorded models as they were and lists exactly the records
\* of that moment; the aggregate failure lists exactly the records of the moment it
\* is built, and the step that builds it changes nothing but what the call that
\* just ended reported: one more failure of the model called
C30_SnapshotReadOnly ==
    /\ [][Diagnoses => modelHealth' = modelHealth /\ snapshot'.models = modelHealth]_vars
    /\ [][Aggregates =>
             /\ response'.body.healthStatus = modelHealth'
             /\ DOMAIN modelHealth' = DOMAIN modelHealth \cup {TheCall.model}
             /\ RecordAfter = [RecordBefore EXCEPT !.failures = @ + 1]
             /\ \A m \in DOMAIN modelHealth \ {TheCall.model} :
                    modelHealth'[m] = modelHealth[m]]_vars

\* the aggregate failure was returned after GET had been answered in the middle of
\* the request, with records that have changed since
C30_Witness ==
    /\ pc = "done"
    /\ response.status = 502
    /\ response.body.healthStatus = modelHealth
    /\ snapshot.models # EmptyMap
    /\ snapshot.models # modelHealth
    /\ DOMAIN snapshot.models # Models


\* C22 as stated: once the caller has gone, the call in flight is aborted and the
\* orchestration starts no further call and no further backoff wait
C22_Original ==
    /\ [][cancelled' /\ ~cancelled /\ inflight = 1 => inflight' = 0]_vars
    /\ [][cancelled => ~CallStarts /\ waits' = waits]_vars

\* what holds instead: the caller's going changes nothing in the handler
C22_DisconnectIgnored ==
    [][cancelled' # cancelled =>
          /\ pc' = pc /\ inflight' = inflight /\ pending' = pending
          /\ calls' = calls /\ waits' = waits /\ response' = response]_vars

\* a call was started and ended after the caller had gone
C22_LateCallCase ==
    /\ cancelled
    /\ Len(calls) >= 2
    /\ startedAt > StartTime
    /\ pc = "done"

\* C23 as stated: the timeout bounds every call as a whole: a call that returns a
\* response does so within timeoutMs of its start, and a call that has no complete
\* response by then ends by throwing and is recorded as a failure of its model
C23_Original ==
    /\ [][CallEnds /\ ~outcome'.threw => now' - startedAt <= DefaultTimeout]_vars
    /\ [][CallEnds /\ now' - startedAt >= DefaultTimeout =>
             /\ outcome'.threw
             /\ RecordAfter.failures = RecordBefore.failures + 1]_vars

\* what holds instead: the timeout bounds the wait for the status line only; every
\* call that ends while fetch is pending ends within timeoutMs, and by throwing,
\* with a failure recorded, if it ends at timeoutMs
C23_FetchBounded ==
    /\ [][pc = "fetch" => now' - startedAt <= DefaultTimeout]_vars
    /\ [][pc = "fetch" /\ CallEnds /\ now' - startedAt = DefaultTimeout =>
             /\ outcome'.threw
             /\ RecordAfter.failures = RecordBefore.failures + 1]_vars

\* a call returned a response more than timeoutMs after it started
C23_LateBodyCase ==
    /\ calls # <<>>
    /\ ~outcome.threw
    /\ inflight = 0
    /\ now - startedAt > DefaultTimeout

\* C25 as stated: every request that arrives reaches a terminal outcome and is
\* answered once; after the answer there is no call, no backoff wait, no health
\* update and no other answer
C25_Original ==
    /\ (pc # "idle") ~> (pc = "done")
    /\ [](pc = "done" <=> response.status # 0)
    /\ [][pc = "done" =>
             /\ pc' = "done"
             /\ response' = response
             /\ calls' = calls /\ waits' = waits /\ updates' = updates
             /\ inflight' = inflight
             /\ modelHealth' = modelHealth]_vars

\* what holds: an answer is final and there is one answer at most
C25_AnswerIsFinal ==
    /\ [](pc = "done" <=> response.status # 0)
    /\ [][pc = "done" =>
             /\ pc' = "done"
             /\ response' = response
             /\ calls' = calls /\ waits' = waits /\ updates' = updates
             /\ inflight' = inflight
             /\ modelHealth' = modelHealth]_vars

\* what holds of the requests whose calls never wait for a body that does not come
C25_AnsweredUnlessReading ==
    (pc # "idle") ~> (pc \in {"done", "read"})


\* the body texts that are JSON
JsonTexts == {RawCompletion, RawClash, RawQuota, RawInvalid, "null"}

\* C24: callOpenRouter throws only when no complete response arrived: the fetch
\* was rejected or aborted, or the body read broke. Every response whose body
\* arrived is returned, whatever its status and whether or not its body parses, with
\* its ok flag, its status, its raw text, and the parsed body, absent when the text
\* is no JSON
C24_ResponsesAreReturned ==
    /\ [][CallEnds /\ ~outcome'.threw =>
             /\ pc = "read"
             /\ \E p \in pending :
                   /\ outcome'.result.status = p.reply.status
                   /\ outcome'.result.ok <=>
                          (p.reply.status >= 200 /\ p.reply.status <= 299)
                   /\ outcome'.result.raw = JsString(p.reply.raw)
                   /\ outcome'.result.data.tag = "undefined" <=>
                          p.reply.raw \notin JsonTexts]_vars
    /\ [][CallEnds /\ outcome'.threw =>
             /\ statuses' = statuses
             /\ outcome'.result.message \in
                    {"fetch failed", "This operation was aborted", "terminated"}
             /\ outcome'.result.message = "terminated" <=> pc = "read"]_vars

\* a call returned a 404 whose body is no JSON: not ok, the text kept, no parsed body
C24_Witness ==
    /\ calls # <<>>
    /\ ~outcome.threw
    /\ outcome.result.status = 404
    /\ ~outcome.result.ok
    /\ outcome.result.raw = JsString(RawHtml)
    /\ outcome.result.data = JsUndefined


\* the keys of the body of the response
Keys == DOMAIN response.body

\* the shapes of a response: the validation error, the no-candidates error, the
\* success, the fatal error of one attempt, the aggregate failure
ValidationShape ==
    /\ response.status = 400
    /\ Keys = {"error", "message"}
    /\ response.body.message = "messages[] is required and must not be empty"
NoCandidatesShape ==
    /\ response.status = 503
    /\ Keys = {"error", "message"}
    /\ response.body.message = "No healthy models available"
SuccessShape ==
    /\ response.status = 200
    /\ {"model_used", "response_time", "attempt", "health_status"} \subseteq Keys
FatalShape ==
    Keys = {"error", "model_attempted", "status", "attempt", "details"}
AggregateShape ==
    /\ response.status = 502
    /\ Keys = {"error", "message", "lastError", "healthStatus"}

\* the shape of the outer catch: status 500 with a message and a timestamp
ServerErrorShape ==
    /\ response.status = 500
    /\ Keys = {"error", "message", "timestamp"}

\* C26 as stated: every answer has one of the five shapes
C26_Original ==
    pc = "done" =>
        \/ ValidationShape
        \/ NoCandidatesShape
        \/ SuccessShape
        \/ FatalShape
        \/ AggregateShape

\* what holds instead: every answer has one of the five shapes or the shape of the
\* outer catch, and that one only for a body that req.json() cannot parse; a call
\* that threw never leads to it
C26_SixShapes ==
    pc = "done" =>
        /\ \/ ValidationShape
           \/ NoCandidatesShape
           \/ SuccessShape
           \/ FatalShape
           \/ AggregateShape
           \/ ServerErrorShape
        /\ ServerErrorShape <=> ~reqBody.json
        /\ ServerErrorShape => calls = <<>>

\* the last call of a request threw and the answer is the aggregate failure
C26_ThrownCase ==
    pc = "done" /\ calls # <<>> /\ outcome.threw /\ AggregateShape

\* the answer carries the error marker
HasErrorMarker == ~SuccessShape /\ response.body.error

\* the answer has a 2xx status
Is2xx == response.status >= 200 /\ response.status <= 299

\* the latest call got an ok reply with a parsed body
OkAndParsed == ~outcome.threw /\ outcome.result.ok /\ Truthy(outcome.result.data)

\* C27 as stated: an answer with the error marker has a status that is not 2xx,
\* and names the model, the upstream status and the attempt when it reports a
\* failed call; an answer with a 2xx status is the success of a call whose reply
\* was ok with a parsed body
C27_Original ==
    pc = "done" =>
        /\ HasErrorMarker => ~Is2xx
        /\ HasErrorMarker /\ calls # <<>> /\ ~AggregateShape =>
              /\ FatalShape
              /\ response.body.model_attempted = calls[Len(calls)].model
              /\ response.body.status = outcome.result.status
              /\ response.body.attempt = calls[Len(calls)].attempt
        /\ Is2xx => SuccessShape /\ calls # <<>> /\ OkAndParsed

\* what holds instead: the same, but for the calls whose reply was ok with a body
\* that is empty or no JSON, whose fatal error is answered with the 2xx status of
\* the reply
C27_ConsistentButForOkUnparsed ==
    pc = "done" =>
        /\ HasErrorMarker /\ Is2xx =>
              /\ FatalShape
              /\ ~outcome.threw /\ outcome.result.ok /\ ~Truthy(outcome.result.data)
        /\ HasErrorMarker /\ calls # <<>> /\ ~AggregateShape =>
              /\ FatalShape
              /\ response.body.model_attempted = calls[Len(calls)].model
              /\ response.body.status = outcome.result.status
              /\ response.body.attempt = calls[Len(calls)].attempt
        /\ Is2xx /\ ~HasErrorMarker => SuccessShape /\ calls # <<>> /\ OkAndParsed

\* a reply of 200 with a body that is no JSON was answered as an error with status 200
C27_OkUnparsedCase ==
    /\ pc = "done"
    /\ HasErrorMarker
    /\ response.status = 200
    /\ outcome.result.raw = JsString(RawHtml)


\* a sent body without the model identifier
WithoutModel(b) == [k \in (DOMAIN b) \ {"model"} |-> b[k]]

\* the temperature or top_p a request asks for, when it is a number
Asked(key) == NumberOnly(key, reqBody[key])

\* the part of a sent body under one key
Only(b, key) == [k \in (DOMAIN b) \cap {key} |-> b[k]]

\* C28: whenever a call of an orchestration is sent, every body sent so far is the
\* payload of the orchestration (the messages, the clamped max_tokens, and the
\* temperature and top_p asked for) plus a model identifier, which is that of the
\* call's model; and sending it leaves the payload as it was for the later calls
C28_PayloadSameButModel ==
    [][Len(sent') > Len(sent) =>
          /\ basePayload' = basePayload
          /\ "model" \notin DOMAIN basePayload'
          /\ \A i \in DOMAIN sent' :
                /\ WithoutModel(sent'[i]) = basePayload'
                /\ WithoutModel(sent'[i]) = WithoutModel(sent'[1])
                /\ sent'[i].messages = reqBody.messages
                /\ sent'[i].max_tokens = ClampedRequest
                /\ \A key \in {"temperature", "top_p"} :
                      Only(sent'[i], key) = Asked(key)
                /\ i \in DOMAIN calls => sent'[i].model = calls[i].model
          /\ sent'[Len(sent')].model = availableModels[mi].model]_vars

\* an orchestration sent a temperature and a top_p to two different models
C28_Witness ==
    /\ Len(sent) >= 3
    /\ sent[1].model # sent[Len(sent)].model
    /\ Only(sent[1], "temperature") = [temperature |-> JsNumber(1)]
    /\ Only(sent[Len(sent)], "top_p") = [top_p |-> JsNumber(0)]
    /\ WithoutModel(sent[1]) = WithoutModel(sent[Len(sent)])

\* an orchestration sent neither for a temperature that is a string and a top_p
\* that is null
C28_NotANumberCase ==
    /\ Len(sent) >= 2
    /\ reqBody.temperature = JsString("1")
    /\ DOMAIN sent[2] = {"messages", "max_tokens", "model"}


\* the entries of the configs list of the latest GET response
ListedConfigs == { snapshot.configs[i] : i \in DOMAIN snapshot.configs }

\* the step answers a request with the success of a call
Succeeds == response' # response /\ response'.kind = "success" /\ pc' = "done"

\* C31 as stated: the configs list of a GET response holds the identifiers of the
\* configured models, the ones which are the keys of its health snapshot and the
\* model used of the orchestration results
C31_Original ==
    snapshot # NoSnapshot =>
        /\ ListedConfigs = Models
        /\ DOMAIN snapshot.models \subseteq ListedConfigs
        /\ \A i \in DOMAIN calls : calls[i].model \in ListedConfigs

\* what holds instead: the list is the three keys of the registry, whatever the
\* health map holds; the keys of the snapshot and the models called are model
\* identifiers, none of which is in the list
C31_RegistryKeysListed ==
    snapshot # NoSnapshot =>
        /\ snapshot.configs = <<"primary", "secondary", "tertiary">>
        /\ DOMAIN snapshot.models \subseteq Models
        /\ DOMAIN snapshot.models \cap ListedConfigs = {}
        /\ \A i \in DOMAIN calls : calls[i].model \in Models \ ListedConfigs

\* GET answered after calls to two models were recorded
C31_RecordedCase ==
    /\ snapshot # NoSnapshot
    /\ Cardinality(DOMAIN snapshot.models) >= 2
    /\ calls # <<>>


\* the record of the model called shows a success of this step: the last success
\* is the time of the call's end and the failure count went down by one, or
\* stayed at 0
RecordImproved ==
    /\ RecordAfter.lastSuccess = now'
    /\ RecordAfter.failures = Max(0, RecordBefore.failures - 1)

\* C32 as stated: a call is recorded as a success of its model exactly when the
\* request is answered with the success of that call
C32_Original ==
    [][IsCall => (RecordImproved <=> Succeeds)]_vars

\* what holds instead: every call answered as a success is recorded as one, and
\* the calls recorded as a success without being answered as one are those whose
\* reply was ok with a body that is empty, the text null, or no JSON
C32_AgreeButForOkUnparsed ==
    [][IsCall =>
          /\ Succeeds => RecordImproved
          /\ RecordImproved /\ ~Succeeds <=>
                /\ ~outcome'.threw
                /\ outcome'.result.ok
                /\ ~Truthy(outcome'.result.data)
          /\ RecordImproved /\ ~Succeeds => response'.kind = "fatal"]_vars

\* a call whose reply was 200 with an HTML page lowered the failure count of its
\* model and was answered as a fatal error
C32_OkUnparsedCase ==
    /\ pc = "done"
    /\ response.kind = "fatal"
    /\ outcome.result.raw = JsString(RawHtml)
    /\ outcome.result.ok
    /\ modelHealth[calls[Len(calls)].model].lastSuccess = now
    /\ Len(calls) >= 2


\* no request is being served
NoneInFlight == pc \in {"idle", "done"}

\* C33: once every model is unhealthy and no request is being served, the passing
\* of time and requests under "auto" leave every model unhealthy: such a request is
\* answered with the no-candidates error at once, without a call and without a
\* change of the health map. A model goes from unhealthy to healthy only in a step
\* that records a success of a call to it, made for a request that named a provider
\* or for one under "auto" that found the model healthy when it started
C33_ExclusionAbsorbing ==
    /\ [][HealthyNow = {} /\ NoneInFlight /\ (Arrives => provider' = "auto") =>
             /\ HealthyNow' = {}
             /\ modelHealth' = modelHealth
             /\ ~IsCall /\ inflight' = 0
             /\ Arrives => /\ pc' = "done"
                           /\ calls' = <<>> /\ sent' = <<>>
                           /\ response'.status = 503
                           /\ response'.body.message = "No healthy models available"]_vars
    /\ [][\A m \in Models :
             m \notin HealthyNow /\ m \in HealthyNow' =>
                 /\ IsRecordedSuccess
                 /\ TheCall.model = m
                 /\ provider # "auto" \/ m \notin excluded]_vars

\* with every model unhealthy, a second request under "auto" was refused after idle
\* time, as the first had been
C33_Witness ==
    /\ HealthyNow = {}
    /\ pc = "done"
    /\ provider = "auto"
    /\ requests >= 2
    /\ ticks >= 1
    /\ response.status = 503
    /\ calls = <<>>

\* a request that named a provider made an unhealthy model healthy again
C33_ExplicitCase ==
    /\ provider # "auto"
    /\ \E m \in excluded : m \in HealthyNow
    /\ requests >= 2

\* a request under "auto" made healthy again a model that had become unhealthy
\* while it was being served
C33_SelectedBeforeCase ==
    /\ provider = "auto"
    /\ \E i \in DOMAIN calls :
          /\ calls[i].model \in HealthyNow
          /\ i > 1
          /\ calls[i - 1].model = calls[i].model
          /\ modelHealth[calls[i].model].failures > 3


\* the models of the candidate list of the request being served
Candidates == { availableModels[j].model : j \in DOMAIN availableModels }

\* C34: the candidate list of an orchestration is the one chosen when the request
\* arrives, from the health map of that moment, and no later step changes it,
\* whatever the orchestration's own calls and the calls of other requests do to
\* the health map: the calls made are the first calls of the list taken in order
\* with the full budget of each model, all of them when the orchestration ends with
\* the aggregate failure
C34_CandidatesFixedAtStart ==
    /\ [][Arrives /\ Accepted' =>
             availableModels' = AvailableModels(provider', modelHealth, now)]_vars
    /\ [][~Arrives => availableModels' = availableModels]_vars
    /\ [](/\ Len(calls) <= Len(ExhaustiveCalls(availableModels))
          /\ calls = SubSeq(ExhaustiveCalls(availableModels), 1, Len(calls)))
    /\ [](response.kind = "aggregate" => calls = ExhaustiveCalls(availableModels))

\* an orchestration under "auto" called a model to the end of its budget although
\* the model had become unhealthy on the way, through its own calls and those of
\* another request
C34_Witness ==
    /\ provider = "auto"
    /\ response.kind = "aggregate"
    /\ landed # <<>>
    /\ \E m \in Candidates :
          /\ m \notin HealthyNow
          /\ CallsTo(m) = Budget(m)
          /\ Budget(m) >= 2
          /\ \E i \in DOMAIN landed : landed[i].model = m /\ ~landed[i].success

\* a model left out at the start became healthy through another request's call
\* while the orchestration ran, and was not called
C34_NotAddedCase ==
    /\ provider = "auto"
    /\ pc = "done"
    /\ calls # <<>>
    /\ \E m \in excluded : m \in HealthyNow /\ m \notin Candidates /\ CallsTo(m) = 0


\* C35: when every call and every backoff wait ends, every request that arrived is
\* answered; and an orchestration never makes more calls than the sum of maxRetries
\* over its candidate models, which is 6 at most, the sum over the three models of
\* the registry
C35_TerminatesWithinBudget ==
    /\ (pc # "idle") ~> (pc = "done")
    /\ [](/\ Len(calls) + inflight <= SumBudgets(availableModels)
          /\ SumBudgets(availableModels) <= 6
          /\ SumBudgets(MODEL_CONFIGS) = 6)

\* an orchestration ended after the six calls of the three models
C35_Witness ==
    /\ pc = "done"
    /\ Len(availableModels) = 3
    /\ Len(calls) = 6
    /\ SumBudgets(availableModels) = 6
    /\ inflight = 0


\* C36: the last success of a record is 0 until a success of its model is recorded,
\* which sets it to the time of that success, and it never decreases; a model whose
\* record has last success 0 is healthy exactly while its failure count is at most
\* 3, however recent its failures are
C36_NeverSucceededNoGrace ==
    /\ [](\A m \in Recorded :
             modelHealth[m].lastSuccess = 0 =>
                 (m \in HealthyNow <=> modelHealth[m].failures <= 3))
    /\ [][\A m \in Recorded' :
             /\ m \notin Recorded /\ IsRecordedFailure =>
                   modelHealth'[m].lastSuccess = 0
             /\ m \in Recorded =>
                   /\ modelHealth'[m].lastSuccess >= modelHealth[m].lastSuccess
                   /\ modelHealth'[m].lastSuccess # modelHealth[m].lastSuccess =>
                         /\ IsRecordedSuccess
                         /\ TheCall.model = m
                         /\ modelHealth'[m].lastSuccess = now'
             /\ IsRecordedSuccess /\ TheCall.model = m =>
                   modelHealth'[m].lastSuccess = now' /\ now' > 0]_vars

\* a model that never succeeded is left out with its fourth failure, seconds after
\* its first
C36_Witness ==
    /\ now - StartTime < 300000
    /\ \E m \in Recorded :
          /\ modelHealth[m].lastSuccess = 0
          /\ modelHealth[m].failures = 4
          /\ m \notin HealthyNow
    /\ \E m \in Recorded :
          /\ modelHealth[m].lastSuccess = 0
          /\ modelHealth[m].failures = 3
          /\ m \in HealthyNow


\* the keys POST writes into the body of a success
OwnKeys == {"model_used", "response_time", "attempt", "health_status"}

\* the parsed body of the reply of the latest call
UpstreamBody == outcome.result.data.obj

\* C37 as stated: in a success the four fields of the orchestrator carry its own
\* values for the call that succeeded, whatever the upstream body holds, and the
\* body carries no error marker
C37_Original ==
    response.kind = "success" =>
        /\ response.body.model_used = calls[Len(calls)].model
        /\ response.body.attempt = calls[Len(calls)].attempt
        /\ response.body.response_time = outcome.result.responseTime
        /\ response.body.health_status = "healthy"
        /\ "error" \notin DOMAIN response.body

\* what holds instead: every key of the upstream body reaches the caller with the
\* upstream's value, and the orchestrator's values stand only under the keys the
\* upstream body lacks
C37_UpstreamKeysWin ==
    response.kind = "success" =>
        /\ \A k \in DOMAIN UpstreamBody : response.body[k] = UpstreamBody[k]
        /\ DOMAIN response.body = OwnKeys \cup DOMAIN UpstreamBody
        /\ "model_used" \notin DOMAIN UpstreamBody =>
              response.body.model_used = calls[Len(calls)].model
        /\ "attempt" \notin DOMAIN UpstreamBody =>
              response.body.attempt = calls[Len(calls)].attempt
        /\ response.body.response_time = outcome.result.responseTime
        /\ response.body.health_status = "healthy"

\* a success whose body carries the error object of the upstream body
C37_ErrorKeyCase ==
    /\ response.kind = "success"
    /\ response.status = 200
    /\ "error" \in DOMAIN response.body
    /\ outcome.result.raw = JsString(RawQuota)

\* a success that reports the model and the attempt of the upstream body
C37_OverwrittenCase ==
    /\ response.kind = "success"
    /\ response.body.model_used = "upstream"
    /\ response.body.attempt = 99
    /\ calls[Len(calls)].attempt = 1


\* the step saves a result to the history
Saves == history' # history /\ history' # <<>>

\* C38: the history never holds more than 50 entries and its entries are ordered
\* newest first; a save puts the new entry, with the time of the save, in front of
\* the 49 newest entries of the history before and drops the others; a step that
\* sets a validation error, or the error of a failed generation, leaves the history
\* as it was
C38_HistoryCappedNewestFirst ==
    /\ [](Len(history) <= 50)
    /\ [](\A i, j \in DOMAIN history :
             i < j => history[i].timestamp >= history[j].timestamp)
    /\ [][Saves =>
             /\ Head(history').timestamp = clock'
             /\ \A j \in DOMAIN history : Head(history').timestamp >= history[j].timestamp
             /\ Len(history') = Min(Len(history) + 1, 50)
             /\ Tail(history') = SubSeq(history, 1, Len(history') - 1)
             /\ errState' = JsNull]_vars
    /\ [][errState' # JsNull /\ errState' # errState => history' = history]_vars

\* a save into a history of 50 entries dropped the oldest one, after a result that
\* failed validation had been refused
C38_Witness ==
    /\ Len(history) = 50
    /\ history[1].timestamp = StartTime + 51
    /\ history[50].timestamp = StartTime + 2
    /\ errState = JsNull


\* the step removes toasts from the list
Removes == Ids(toasts') # Ids(toasts) /\ Ids(toasts') \subseteq Ids(toasts)

\* C39 as stated: a toast is in the list no longer than its duration (5000 ms when
\* it has none) after it was added, whatever is added or removed meanwhile; and a
\* removal takes one toast and leaves the others
C39_Original ==
    /\ [](\A i \in DOMAIN toasts :
             clock - addedAt[toasts[i].id] <= Duration(toasts[i]))
    /\ [][Removes =>
             /\ Cardinality(Ids(toasts) \ Ids(toasts')) = 1
             /\ \E id \in Ids(toasts) : toasts' = Without(toasts, id)]_vars

\* what holds instead: a toast is in the list no longer than its duration after
\* the latest change of the list, which re-armed its timer; a removal takes one
\* toast and leaves the others
C39_DurationFromLatestRender ==
    /\ [](/\ DOMAIN timers = Ids(toasts)
          /\ \A i \in DOMAIN toasts :
                /\ clock <= timers[toasts[i].id]
                /\ timers[toasts[i].id] >= addedAt[toasts[i].id] + Duration(toasts[i]))
    /\ [][Ids(toasts') # Ids(toasts) =>
             \A i \in DOMAIN toasts' :
                 timers'[toasts'[i].id] = clock' + Duration(toasts'[i])]_vars
    /\ [][Removes =>
             /\ Cardinality(Ids(toasts) \ Ids(toasts')) = 1
             /\ \E id \in Ids(toasts) : toasts' = Without(toasts, id)]_vars

\* a toast of 5000 ms is still in the list 7 s after it was added, a second toast
\* having been added 3 s after it
C39_OverdueCase ==
    /\ Len(toasts) >= 2
    /\ toasts[1].duration = UNDEFINED
    /\ clock - addedAt[toasts[1].id] = 7000
    /\ addedAt[toasts[2].id] - addedAt[toasts[1].id] = 3000

============================================================================
